---- MODULE Spec2Model ----
(***************************************************************************)
(* Valuation engine of the Vero Echo Effect tool (logic/calculator.py):    *)
(* the memoized reference-table load, the two input normalizers, the three *)
(* echo valuators and calculate_campaign, driven by a caller that invokes  *)
(* one function at a time and then takes the result.                       *)
(*                                                                         *)
(* A DataFrame is a record [columns, rows]; rows is a sequence of records. *)
(* A cell is Num(n), NaN or Text(s).  A float result is modelled by the    *)
(* integer or the reduced fraction it stands for.  reads counts the reads  *)
(* of the backing store; frames holds the caller's tables after a call;    *)
(* memo remembers one earlier campaign call and its record; threads are    *)
(* the concurrent requests entering the cached load.                       *)
(*                                                                         *)
(* Around the engine: the spreadsheet upload normalizers, the campaign     *)
(* wizard and its Streamlit session_state (app.py), the campaign tables of *)
(* the SQLite database (db.py) and the password check (auth.py).  A text   *)
(* is a TLA+ string, read character by character with Len and SubSeq.      *)
(***************************************************************************)
EXTENDS Integers, Sequences, FiniteSets, TLC

VARIABLES db, cache, reads, pc, call, ret, frames, memo, threads,
          session_state, tables

vars == <<db, cache, reads, pc, call, ret, frames, memo, threads,
          session_state, tables>>

(* ------------------------------ bounds --------------------------------- *)

MaxRows == 2
MaxQty == 2
MaxInv == 3
MaxReads == 2
MaxThreads == 3

(* ------------------------------ values --------------------------------- *)

None == [none |-> TRUE]
NaN == [na |-> TRUE]
Num(n) == [v |-> n]
IsNone(x) == "none" \in DOMAIN x
IsNa(c) == "na" \in DOMAIN c
(* a string in a quantity cell, and the TypeError of multiplying it by a
   float *)
Text(s) == [s |-> s]
IsText(c) == "s" \in DOMAIN c
TypeError == [err |-> "TypeError"]
IsErr(c) == "err" \in DOMAIN c

Return(v) == [raised |-> FALSE, value |-> v]
Raise(e) == [raised |-> TRUE, exc |-> e]

DataFrame(cols, rws) == [columns |-> cols, rows |-> rws]
EmptyFrame == DataFrame({}, <<>>)
(* mutant of empty: only a frame without columns counts as empty *)
empty_when_no_columns(df) == df.columns = {}

empty(df) == df.columns = {} \/ Len(df.rows) = 0

(* mutant of fillna: a missing cell becomes 1 *)
fillna_one(c, d) == IF IsNa(c) THEN Num(1) ELSE c

(* Series.fillna(0) on one cell *)
(* mutant of fillna: a missing value stays missing *)
fillna_keep(c, d) == c

fillna(c, d) == IF IsNa(c) THEN d ELSE c

(* element-wise product and sum of two cells; NaN propagates, a string
   times a float is a TypeError *)
Mul(a, b) ==
    IF IsErr(a) \/ IsErr(b) \/ IsText(a) \/ IsText(b) THEN TypeError
    ELSE IF IsNa(a) \/ IsNa(b) THEN NaN ELSE Num(a.v * b.v)
Add(a, b) ==
    IF IsErr(a) \/ IsErr(b) THEN TypeError
    ELSE IF IsNa(a) \/ IsNa(b) THEN NaN ELSE Num(a.v + b.v)

RECURSIVE SeriesSum(_)
(* Series.sum(): NaN cells are skipped, the empty sum is 0 *)
SeriesSum(s) ==
    IF s = <<>> THEN 0
    ELSE (IF IsNa(Head(s)) THEN 0 ELSE Head(s).v) + SeriesSum(Tail(s))

(* float(value.sum()) of a computed column; computing the column raises
   when one of its products does *)
float_sum(value) ==
    IF \E i \in 1..Len(value) : IsErr(value[i])
    THEN Raise("TypeError")
    ELSE Return(SeriesSum(value))

(* mutant of after_copy: the callee wrote to the caller's frame itself *)
after_alias(frame, written) == written

(* the caller's frame after the callee wrote to a copy of it *)
after_copy(frame, written) == frame

RECURSIVE GCD(_, _)
GCD(a, b) == IF b = 0 THEN a ELSE GCD(b, a % b)
Abs(n) == IF n < 0 THEN -n ELSE n

(* the quotient n / d of two numbers, d > 0, as a reduced fraction *)
Quot(n, d) ==
    LET g == GCD(Abs(n), d)
    IN  [num |-> n \div g, den |-> d \div g]
Zero == [num |-> 0, den |-> 1]
Times(q, k) == Quot(q.num * k, q.den)

(* --------------------------- reference data ---------------------------- *)

MediaEntry(c, t, r) == [Category |-> c, Type |-> t, tier_value |-> Num(r)]
CreatorEntry(p, t, tr, r) == [Platform |-> p, Type |-> t, Tier |-> tr, Rate |-> Num(r)]
CpeEntry(p, wc, wp, wa, wm) ==
    [platform |-> p, weight_content |-> Num(wc), weight_passive |-> Num(wp),
     weight_active |-> Num(wa), weight_amplification |-> Num(wm)]

MediaRates ==
    << MediaEntry("Online Article", "Major national media", 5),
       MediaEntry("Online Article", "Industry-specific", 3),
       MediaEntry("Online Article", "Local/niche", 2),
       MediaEntry("Online Article", "major", 13),
       MediaEntry("Social Media", "Major national media", 11),
       MediaEntry("Social Media", "1", 7),
       MediaEntry("Social Media", "2", 4),
       MediaEntry("Social Media", "3", 1) >>

CreatorRates ==
    << CreatorEntry("TikTok", "Video Post", "Micro", 25),
       CreatorEntry("TikTok", "Static/General Post", "Micro", 10),
       CreatorEntry("TikTok", "Video Post", "Macro", 40),
       CreatorEntry("TikTok", "Reel", "Micro", 9),
       CreatorEntry("Instagram", "Video Post", "Micro", 20),
       CreatorEntry("Instagram", "Static/General Post", "Macro", 30) >>

CommunityWeights ==
    << CpeEntry("Instagram", 50, 1, 5, 20),
       CpeEntry("TikTok", 30, 2, 3, 10) >>

Store(m, c, k) ==
    [present |-> TRUE, media_rate_reference |-> m,
     creator_rate_reference |-> c, community_rate_reference |-> k]

SeededStore == Store(MediaRates, CreatorRates, CommunityWeights)
(* the same key stored twice with two rates *)
DuplicateStore ==
    Store(Append(MediaRates, MediaEntry("Online Article", "Major national media", 6)),
          Append(CreatorRates, CreatorEntry("TikTok", "Video Post", "Micro", 1)),
          CommunityWeights)
EmptyStore == Store(<<>>, <<>>, <<>>)
(* a database file in which the reference tables were never created *)
MissingStore ==
    [present |-> FALSE, media_rate_reference |-> <<>>,
     creator_rate_reference |-> <<>>, community_rate_reference |-> <<>>]

Stores == {SeededStore, DuplicateStore, EmptyStore, MissingStore}

(* --------------------------- load (lru_cache) -------------------------- *)

Miss == [hit |-> FALSE]
Hit(t) == [hit |-> TRUE, tables |-> t]

(* the three SELECTs of load_reference_tables against the store *)
read_sql_queries(d) ==
    IF d.present
    THEN Return([media_tier_df |-> d.media_rate_reference,
                 creator_rate_df |-> d.creator_rate_reference,
                 cpe_df |-> d.community_rate_reference])
    ELSE Raise("DatabaseError")

(* lru_cache(maxsize=1) around the body: a hit returns the stored tuple, a
   miss runs the body and stores its result unless it raised *)
(* mutant of load_reference_tables: no cache, every call reads the store *)
load_reference_tables_uncached(c, d) ==
    LET r == read_sql_queries(d)
    IN  [ret |-> r, cache |-> IF r.raised THEN c ELSE Hit(r.value), reads |-> 1]

(* mutant of load_reference_tables: a hit returns the cached tables but
   queries the store all the same *)
load_reference_tables_requerying(c, d) ==
    LET r == read_sql_queries(d)
    IN  IF c.hit
        THEN [ret |-> Return(c.tables), cache |-> c, reads |-> 1]
        ELSE [ret |-> r, cache |-> IF r.raised THEN c ELSE Hit(r.value), reads |-> 1]

(* mutant of load_reference_tables: a failed load is swallowed and empty
   tables are cached in its place *)
load_reference_tables_swallowing(c, d) ==
    LET r == read_sql_queries(d)
        t == IF r.raised
             THEN [media_tier_df |-> <<>>, creator_rate_df |-> <<>>, cpe_df |-> <<>>]
             ELSE r.value
    IN  IF c.hit
        THEN [ret |-> Return(c.tables), cache |-> c, reads |-> 0]
        ELSE [ret |-> Return(t), cache |-> Hit(t), reads |-> 1]

load_reference_tables(c, d) ==
    IF c.hit
    THEN [ret |-> Return(c.tables), cache |-> c, reads |-> 0]
    ELSE LET r == read_sql_queries(d)
         IN  IF r.raised
             THEN [ret |-> r, cache |-> c, reads |-> 1]
             ELSE [ret |-> r, cache |-> Hit(r.value), reads |-> 1]

(* ------------------------------ left merge ----------------------------- *)

(* str.lower on the platform names of the model *)
lower(s) ==
    CASE s = "Instagram" -> "instagram"
      [] s = "TikTok" -> "tiktok"
      [] OTHER -> s

(* mutant of on: keys are compared without regard to letter case *)
on_casefold(l, r, left_on, right_on) ==
    \A i \in 1..Len(left_on) : lower(l[left_on[i]]) = lower(r[right_on[i]])

(* the rows l, r agree on the key columns left_on[i] / right_on[i] *)
on(l, r, left_on, right_on) ==
    \A i \in 1..Len(left_on) : l[left_on[i]] = r[right_on[i]]

RECURSIVE merge_drop_duplicates(_, _, _, _, _)
(* mutant of merge: identical left rows are merged once (drop_duplicates) *)
merge_drop_duplicates(left, right, left_on, right_on, nulls) ==
    IF left = <<>> THEN <<>>
    ELSE LET l == Head(left)
             hits == SelectSeq(right, LAMBDA r : on(l, r, left_on, right_on))
             out == IF \E i \in 1..Len(Tail(left)) : Tail(left)[i] = l
                    THEN <<>>
                    ELSE IF hits = <<>>
                         THEN << l @@ nulls >>
                         ELSE [i \in 1..Len(hits) |-> l @@ hits[i]]
         IN  out \o merge_drop_duplicates(Tail(left), right, left_on, right_on, nulls)

RECURSIVE merge(_, _, _, _, _)
(* DataFrame.merge(right, left_on, right_on, how="left"): every left row, in
   order, once per matching right row, or once with the right columns NaN
   if none matches *)
merge(left, right, left_on, right_on, nulls) ==
    IF left = <<>> THEN <<>>
    ELSE LET l == Head(left)
             hits == SelectSeq(right, LAMBDA r : on(l, r, left_on, right_on))
             out == IF hits = <<>>
                    THEN << l @@ nulls >>
                    ELSE [i \in 1..Len(hits) |-> l @@ hits[i]]
         IN  out \o merge(Tail(left), right, left_on, right_on, nulls)

(* Series.map(type_map).fillna(series) on one label: the mapped label when
   the dict has the key, the label itself otherwise *)
map_fillna(type_map, label) ==
    IF label \in DOMAIN type_map THEN type_map[label] ELSE label

(* ------------------------------ media echo ----------------------------- *)

(* mutant of media_type_map: lower-case spellings are mapped too *)
media_type_map_caseless ==
    [k \in {"Major", "major", "Industry", "industry", "Local/Niche",
            "Tier 1", "tier 1", "Tier 2", "Tier 3"} |->
        CASE k \in {"Major", "major"} -> "Major national media"
          [] k \in {"Industry", "industry"} -> "Industry-specific"
          [] k = "Local/Niche" -> "Local/niche"
          [] k \in {"Tier 1", "tier 1"} -> "1"
          [] k = "Tier 2" -> "2"
          [] k = "Tier 3" -> "3"]

(* mutant of media_type_map: the rank "1" is taken for the major tier *)
media_type_map_ranking ==
    [k \in {"Major", "Industry", "Local/Niche", "Tier 1", "Tier 2", "Tier 3",
            "1"} |->
        CASE k \in {"Major", "1"} -> "Major national media"
          [] k = "Industry" -> "Industry-specific"
          [] k = "Local/Niche" -> "Local/niche"
          [] k = "Tier 1" -> "1"
          [] k = "Tier 2" -> "2"
          [] k = "Tier 3" -> "3"]

media_type_map ==
    [k \in {"Major", "Industry", "Local/Niche", "Tier 1", "Tier 2", "Tier 3"} |->
        CASE k = "Major" -> "Major national media"
          [] k = "Industry" -> "Industry-specific"
          [] k = "Local/Niche" -> "Local/niche"
          [] k = "Tier 1" -> "1"
          [] k = "Tier 2" -> "2"
          [] k = "Tier 3" -> "3"]

_normalize_media_inputs(media_inputs) ==
    DataFrame(media_inputs.columns \cup {"Category", "TypeForJoin"},
              [i \in 1..Len(media_inputs.rows) |->
                  LET row == media_inputs.rows[i]
                  IN  [Category |-> row.channel_type,
                       TypeForJoin |-> map_fillna(media_type_map, row.tier_name)]
                      @@ row])

(* mutant of media_keys: the join ignores the category *)
media_keys_type_only ==
    [left_on |-> <<"TypeForJoin">>, right_on |-> <<"Type">>]

media_keys ==
    [left_on |-> <<"Category", "TypeForJoin">>, right_on |-> <<"Category", "Type">>]

calculate_media_echo(media_inputs, c, d) ==
    IF IsNone(media_inputs) \/ empty(media_inputs)
    THEN [ret |-> Return(0), cache |-> c, reads |-> 0, frames |-> <<media_inputs>>]
    ELSE LET ld == load_reference_tables(c, d)
         IN  IF ld.ret.raised THEN ld @@ [frames |-> <<media_inputs>>]
             ELSE LET media_tier_df == ld.ret.value.media_tier_df
                      df_norm == _normalize_media_inputs(media_inputs)
                      merged == merge(df_norm.rows, media_tier_df,
                                      media_keys.left_on, media_keys.right_on,
                                      [Type |-> NaN, tier_value |-> NaN])
                      value == [i \in 1..Len(merged) |->
                                   Mul(fillna(merged[i].mentions, Num(0)),
                                       fillna(merged[i].tier_value, Num(0)))]
                      after == <<after_copy(media_inputs, df_norm)>>
                  IN  [ret |-> IF "tier_value" \in df_norm.columns
                               THEN Return(0) ELSE float_sum(value),
                       cache |-> ld.cache, reads |-> ld.reads, frames |-> after]

(* ----------------------------- creator echo ---------------------------- *)

(* mutant of creator_type_map: lower-case labels and "Reel" are folded too *)
creator_type_map_folding ==
    [k \in {"Static Post", "Static/General Post", "Video Post", "static post",
            "video post", "Reel"} |->
        CASE k \in {"Static Post", "Static/General Post", "static post"}
                 -> "Static/General Post"
          [] OTHER -> "Video Post"]

creator_type_map ==
    [k \in {"Static Post", "Static/General Post", "Video Post"} |->
        CASE k = "Static Post" -> "Static/General Post"
          [] k = "Static/General Post" -> "Static/General Post"
          [] k = "Video Post" -> "Video Post"]

_normalize_creator_inputs(creator_inputs) ==
    DataFrame(creator_inputs.columns \cup {"TypeForJoin"},
              [i \in 1..Len(creator_inputs.rows) |->
                  LET row == creator_inputs.rows[i]
                  IN  [TypeForJoin |-> map_fillna(creator_type_map, row.content_type)]
                      @@ row])

(* mutant of creator_keys: the join ignores the tier *)
creator_keys_without_tier ==
    [left_on |-> <<"platform", "TypeForJoin">>, right_on |-> <<"Platform", "Type">>]

creator_keys ==
    [left_on |-> <<"platform", "TypeForJoin", "tier">>,
     right_on |-> <<"Platform", "Type", "Tier">>]

calculate_creator_echo(creator_inputs, c, d) ==
    IF IsNone(creator_inputs) \/ empty(creator_inputs)
    THEN [ret |-> Return(0), cache |-> c, reads |-> 0, frames |-> <<creator_inputs>>]
    ELSE LET ld == load_reference_tables(c, d)
         IN  IF ld.ret.raised THEN ld @@ [frames |-> <<creator_inputs>>]
             ELSE LET creator_rate_df == ld.ret.value.creator_rate_df
                      df_norm == _normalize_creator_inputs(creator_inputs)
                      merged == merge(df_norm.rows, creator_rate_df,
                                      creator_keys.left_on, creator_keys.right_on,
                                      [Platform |-> NaN, Type |-> NaN,
                                       Tier |-> NaN, Rate |-> NaN])
                      value == [i \in 1..Len(merged) |->
                                   Mul(fillna(merged[i].num_posts, Num(0)),
                                       fillna(merged[i].Rate, Num(0)))]
                      after == <<after_copy(creator_inputs, df_norm)>>
                  IN  [ret |-> IF "Rate" \in df_norm.columns
                               THEN Return(0) ELSE float_sum(value),
                       cache |-> ld.cache, reads |-> ld.reads, frames |-> after]

(* ---------------------------- community echo --------------------------- *)

WeightColumns ==
    {"weight_content", "weight_passive", "weight_active", "weight_amplification"}

(* mutant of with_content_creation: the synthesized column holds 1 *)
with_content_creation_one(comm_inputs) ==
    DataFrame(comm_inputs.columns \cup {"content_creation"},
              [i \in 1..Len(comm_inputs.rows) |->
                  [content_creation |-> Num(1)] @@ comm_inputs.rows[i]])

(* comm_inputs["content_creation"] = 0 *)
with_content_creation(comm_inputs) ==
    DataFrame(comm_inputs.columns \cup {"content_creation"},
              [i \in 1..Len(comm_inputs.rows) |->
                  [content_creation |-> Num(0)] @@ comm_inputs.rows[i]])

calculate_community_echo(comm_inputs, c, d) ==
    IF IsNone(comm_inputs) \/ empty(comm_inputs)
    THEN [ret |-> Return(0), cache |-> c, reads |-> 0, frames |-> <<comm_inputs>>]
    ELSE LET missing == "content_creation" \notin comm_inputs.columns
             inputs == IF missing THEN with_content_creation(comm_inputs)
                       ELSE comm_inputs
             after == <<IF missing THEN after_copy(comm_inputs, inputs)
                        ELSE comm_inputs>>
             ld == load_reference_tables(c, d)
         IN  IF ld.ret.raised THEN ld @@ [frames |-> after]
             ELSE LET cpe_df == ld.ret.value.cpe_df
                      merged == merge(inputs.rows, cpe_df, <<"platform">>, <<"platform">>,
                                      [weight_content |-> NaN, weight_passive |-> NaN,
                                       weight_active |-> NaN, weight_amplification |-> NaN])
                      (* a weight column that is also an input column is
                         suffixed by the merge and then reset to 0 *)
                      columns == inputs.columns \cup (WeightColumns \ inputs.columns)
                      cell(row, col) ==
                          IF col \in columns /\ ~(col \in WeightColumns /\ col \in inputs.columns)
                          THEN fillna(row[col], Num(0)) ELSE Num(0)
                      value == [i \in 1..Len(merged) |->
                          Add(Add(Mul(cell(merged[i], "content_creation"),
                                      cell(merged[i], "weight_content")),
                                  Mul(cell(merged[i], "passive_engagement"),
                                      cell(merged[i], "weight_passive"))),
                              Add(Mul(cell(merged[i], "active_engagement"),
                                      cell(merged[i], "weight_active")),
                                  Mul(cell(merged[i], "amplification"),
                                      cell(merged[i], "weight_amplification"))))]
                  IN  [ret |-> float_sum(value), cache |-> ld.cache,
                       reads |-> ld.reads, frames |-> after]

(* --------------------------- campaign calculator ----------------------- *)

(* Python truth value of inv in "if inv and inv > 0" *)
truthy(inv) == ~IsNone(inv) /\ inv.v # 0

(* the mutants of campaign_result *)
campaign_result_without_community(inv, media_val, creator_val, comm_val) ==
    LET tev == media_val + creator_val
        positive == truthy(inv) /\ inv.v > 0
    IN  Return([media |-> media_val, creator |-> creator_val,
                community |-> comm_val, tev |-> tev,
                roi_m |-> IF positive THEN Quot(tev, inv.v) ELSE Zero,
                roi_pct |-> IF positive
                            THEN Times(Quot(tev - inv.v, inv.v), 100) ELSE Zero])

campaign_result_ratio_not_percent(inv, media_val, creator_val, comm_val) ==
    LET tev == media_val + creator_val + comm_val
        positive == truthy(inv) /\ inv.v > 0
    IN  Return([media |-> media_val, creator |-> creator_val,
                community |-> comm_val, tev |-> tev,
                roi_m |-> IF positive THEN Quot(tev, inv.v) ELSE Zero,
                roi_pct |-> IF positive THEN Quot(tev - inv.v, inv.v) ELSE Zero])

campaign_result_rejecting(inv, media_val, creator_val, comm_val) ==
    LET tev == media_val + creator_val + comm_val
    IN  IF truthy(inv) /\ inv.v > 0
        THEN Return([media |-> media_val, creator |-> creator_val,
                     community |-> comm_val, tev |-> tev,
                     roi_m |-> Quot(tev, inv.v),
                     roi_pct |-> Times(Quot(tev - inv.v, inv.v), 100)])
        ELSE Raise("ZeroDivisionError")

(* the tail of calculate_campaign: tev, the two ROI figures, the record *)
campaign_result(inv, media_val, creator_val, comm_val) ==
    LET tev == media_val + creator_val + comm_val
        positive == truthy(inv) /\ inv.v > 0
    IN  Return([media |-> media_val, creator |-> creator_val,
                community |-> comm_val, tev |-> tev,
                roi_m |-> IF positive THEN Quot(tev, inv.v) ELSE Zero,
                roi_pct |-> IF positive
                            THEN Times(Quot(tev - inv.v, inv.v), 100) ELSE Zero])

calculate_campaign(inv, media_df, creator_df, comm_df, c, d) ==
    LET m == calculate_media_echo(media_df, c, d)
    IN  IF m.ret.raised
        THEN [m EXCEPT !.frames = m.frames \o <<creator_df, comm_df>>]
        ELSE LET cr == calculate_creator_echo(creator_df, m.cache, d)
                 two == m.frames \o cr.frames
                 r2 == m.reads + cr.reads
             IN  IF cr.ret.raised
                 THEN [cr EXCEPT !.reads = r2, !.frames = two \o <<comm_df>>]
                 ELSE LET k == calculate_community_echo(comm_df, cr.cache, d)
                      IN  IF k.ret.raised
                          THEN [k EXCEPT !.reads = r2 + k.reads,
                                         !.frames = two \o k.frames]
                          ELSE [ret |-> campaign_result(inv, m.ret.value,
                                                        cr.ret.value, k.ret.value),
                                cache |-> k.cache,
                                reads |-> r2 + k.reads,
                                frames |-> two \o k.frames]

(* ------------------------------- inputs -------------------------------- *)

SeqsUpTo(S, n) == UNION {[1..k -> S] : k \in 0..n}

Quantities == {NaN} \cup {Num(n) : n \in 0..MaxQty}

MediaColumns == {"channel_type", "tier_name", "mentions"}
CreatorColumns == {"platform", "content_type", "tier", "num_posts"}
CommunityColumns ==
    {"platform", "content_creation", "passive_engagement",
     "active_engagement", "amplification"}

MediaRow(c, t, q) == [channel_type |-> c, tier_name |-> t, mentions |-> q]
CreatorRow(p, t, tr, q) ==
    [platform |-> p, content_type |-> t, tier |-> tr, num_posts |-> q]
CommunityRow(p, cc, pe, ae, am) ==
    [platform |-> p, content_creation |-> cc, passive_engagement |-> pe,
     active_engagement |-> ae, amplification |-> am]

ChannelTypes == {"Online Article", "Social Media"}
UiTierNames == {"Major", "Industry", "Local/Niche", "Tier 1", "Tier 2", "Tier 3"}
OtherTierNames ==
    {"major", "MAJOR", "industry", "Local/niche", "tier 1", "Ultra-Major",
     "Major national media", "Industry-specific", "1", "2", "3"}
TierNames == UiTierNames \cup OtherTierNames

Platforms == {"TikTok", "Instagram", "tiktok", "Threads"}
ContentTypes ==
    {"Static Post", "Video Post", "Static/General Post", "static post",
     "video post", "Reel"}
CreatorTiers == {"Micro", "Macro", "Nano"}

(* tables of several rows draw their rows from the narrow sets, tables of
   one row from the wide ones *)
NarrowMediaRows ==
    {MediaRow(c, t, q) : c \in ChannelTypes, t \in {"Major", "Tier 1", "Ultra-Major"},
                         q \in Quantities}
WideMediaRows ==
    {MediaRow(c, t, q) : c \in ChannelTypes, t \in TierNames, q \in Quantities}

NarrowCreatorRows ==
    {CreatorRow(p, t, tr, q) : p \in {"TikTok", "Instagram"},
                               t \in {"Static Post", "Video Post"},
                               tr \in {"Micro", "Macro"}, q \in Quantities}
WideCreatorRows ==
    {CreatorRow(p, t, tr, q) : p \in Platforms, t \in ContentTypes,
                               tr \in CreatorTiers, q \in Quantities}

Bits == {Num(0), Num(1)}
NarrowCommunityRows ==
    {CommunityRow(p, cc, pe, ae, am) : p \in {"Instagram", "instagram"},
                                       cc \in Bits, pe \in Bits, ae \in Bits, am \in Bits}
WideCommunityRows ==
    {CommunityRow(p, cc, pe, ae, am) :
        p \in {"Instagram", "instagram", "TikTok", "Threads"},
        cc \in Quantities, pe \in Quantities, ae \in Quantities, am \in Quantities}

Frames(cols, narrow, wide) ==
    {None, EmptyFrame}
    \cup {DataFrame(cols, rws) : rws \in SeqsUpTo(narrow, MaxRows)}
    \cup {DataFrame(cols, <<r>>) : r \in wide}

(* tables with a text string in a quantity cell, alone or beside a row of
   numbers *)
TextQuantities == {Text("abc"), Text("12")}
WithText(cols, texts, others) ==
    {DataFrame(cols, rws) :
        rws \in {<<t>> : t \in texts}
                \cup {<<t, r>> : t \in texts, r \in others}
                \cup {<<r, t>> : t \in texts, r \in others}}

TextMediaInputs ==
    WithText(MediaColumns,
             {MediaRow("Online Article", t, q) :
                 t \in {"Major", "Ultra-Major"}, q \in TextQuantities},
             {MediaRow("Social Media", "Tier 1", Num(1))})
TextCreatorInputs ==
    WithText(CreatorColumns,
             {CreatorRow("TikTok", t, "Micro", q) :
                 t \in {"Video Post", "video post"}, q \in TextQuantities},
             {CreatorRow("TikTok", "Static Post", "Micro", Num(1))})
TextCommunityInputs ==
    WithText(CommunityColumns,
             {CommunityRow(p, Num(1), q, Num(0), Num(1)) :
                 p \in {"Instagram", "Threads"}, q \in TextQuantities},
             {CommunityRow("TikTok", Num(1), Num(1), Num(1), Num(1))})

(* community tables that have no content_creation column *)
EngagementRow(p, pe, ae, am) ==
    [platform |-> p, passive_engagement |-> pe, active_engagement |-> ae,
     amplification |-> am]
EngagementOnlyInputs ==
    {DataFrame(CommunityColumns \ {"content_creation"}, rws) :
        rws \in UNION {[1..k -> {EngagementRow(p, pe, Num(1), am) :
                                    p \in {"Instagram", "TikTok"},
                                    pe \in Bits, am \in Bits}] : k \in 1..MaxRows}
                \cup {<<EngagementRow(p, pe, ae, am)>> :
                         p \in {"Instagram", "TikTok", "Threads"},
                         pe \in Quantities, ae \in Quantities, am \in Quantities}}

MediaInputs ==
    Frames(MediaColumns, NarrowMediaRows, WideMediaRows) \cup TextMediaInputs
CreatorInputs ==
    Frames(CreatorColumns, NarrowCreatorRows, WideCreatorRows) \cup TextCreatorInputs
CommunityInputs ==
    Frames(CommunityColumns, NarrowCommunityRows, WideCommunityRows)
    \cup TextCommunityInputs \cup EngagementOnlyInputs

Investments == {None} \cup {Num(n) : n \in -1..MaxInv}

CampaignMedia ==
    {None, EmptyFrame,
     DataFrame(MediaColumns, <<MediaRow("Online Article", "Major", Num(2))>>),
     DataFrame(MediaColumns, <<MediaRow("Social Media", "Tier 1", Num(1)),
                               MediaRow("Social Media", "Ultra-Major", Num(2))>>)}
CampaignCreator ==
    {None, EmptyFrame,
     DataFrame(CreatorColumns, <<CreatorRow("TikTok", "Video Post", "Micro", Num(1))>>),
     DataFrame(CreatorColumns, <<CreatorRow("Instagram", "Static Post", "Macro", Num(2)),
                                 CreatorRow("TikTok", "Static Post", "Nano", Num(1))>>)}
CampaignCommunity ==
    {None, EmptyFrame,
     DataFrame(CommunityColumns,
               <<CommunityRow("Instagram", Num(1), Num(2), Num(0), Num(1))>>),
     DataFrame(CommunityColumns,
               <<CommunityRow("TikTok", Num(0), Num(1), Num(1), Num(0)),
                 CommunityRow("instagram", Num(1), Num(1), Num(1), Num(1))>>),
     DataFrame(CommunityColumns \ {"content_creation"},
               <<EngagementRow("TikTok", Num(1), Num(0), Num(1))>>)}

(* ------------------------------- texts --------------------------------- *)

(* the printable characters of the texts of the model, in code point order *)
Ascii ==
    " !#$%&()*+,-./0123456789:;<=>?@ABCDEFGHIJKLMNOPQRSTUVWXYZ_abcdefghijklmnopqrstuvwxyz"
Char(s, i) == SubSeq(s, i, i)
ord(c) == CHOOSE i \in 1..Len(Ascii) : Char(Ascii, i) = c
IsLower(c) == ord(c) >= ord("a") /\ ord(c) <= ord("z")
IsUpper(c) == ord(c) >= ord("A") /\ ord(c) <= ord("Z")
IsDigit(c) == ord(c) >= ord("0") /\ ord(c) <= ord("9")

RECURSIVE str_upper(_)
str_upper(s) ==
    IF s = "" THEN ""
    ELSE LET c == Char(s, 1)
         IN  (IF IsLower(c) THEN Char(Ascii, ord(c) - (ord("a") - ord("A"))) ELSE c)
             \o str_upper(SubSeq(s, 2, Len(s)))

RECURSIVE str_lower(_)
str_lower(s) ==
    IF s = "" THEN ""
    ELSE LET c == Char(s, 1)
         IN  (IF IsUpper(c) THEN Char(Ascii, ord(c) + (ord("a") - ord("A"))) ELSE c)
             \o str_lower(SubSeq(s, 2, Len(s)))

(* str.strip() *)
RECURSIVE strip(_)
strip(s) ==
    IF s = "" THEN ""
    ELSE IF Char(s, 1) = " " THEN strip(SubSeq(s, 2, Len(s)))
    ELSE IF Char(s, Len(s)) = " " THEN strip(SubSeq(s, 1, Len(s) - 1))
    ELSE s

(* str.replace(old, "") for a one-character old *)
RECURSIVE replace(_, _)
replace(s, old) ==
    IF s = "" THEN ""
    ELSE (IF Char(s, 1) = old THEN "" ELSE Char(s, 1))
         \o replace(SubSeq(s, 2, Len(s)), old)

(* sub in s *)
contains(sub, s) ==
    \E i \in 1..(Len(s) - Len(sub) + 1) : SubSeq(s, i, i + Len(sub) - 1) = sub

(* a < b for str, by code points *)
RECURSIVE str_lt(_, _)
str_lt(a, b) ==
    IF b = "" THEN FALSE
    ELSE IF a = "" THEN TRUE
    ELSE IF Char(a, 1) = Char(b, 1)
         THEN str_lt(SubSeq(a, 2, Len(a)), SubSeq(b, 2, Len(b)))
         ELSE ord(Char(a, 1)) < ord(Char(b, 1))

(* dict.get(key, default) *)
get(mapping, key, default) ==
    IF key \in DOMAIN mapping THEN mapping[key] ELSE default

(* ------------------------- upload normalizers -------------------------- *)

CREATOR_CONTENT_OPTIONS == <<"Static Post", "Video Post">>
PLATFORMS_DISALLOW_STATIC == {"TikTok", "YouTube"}
CREATOR_TIER_OPTIONS == <<"Mega", "Macro", "Mid-tier", "Micro", "Nano">>

get_allowed_content_options(platform) ==
    IF platform \in PLATFORMS_DISALLOW_STATIC THEN <<"Video Post">>
    ELSE CREATOR_CONTENT_OPTIONS

(* str(value).strip() of a text cell *)
_stringify(value) == strip(value)

platform_mapping ==
    [k \in {"FACEBOOK", "INSTAGRAM", "TIKTOK", "YOUTUBE", "YOUTUBE SHORTS", "X",
            "TWITTER", "X (TWITTER)", "LEMON 8", "LEMON8"} |->
        CASE k = "FACEBOOK" -> "Facebook"
          [] k = "INSTAGRAM" -> "Instagram"
          [] k = "TIKTOK" -> "TikTok"
          [] k \in {"YOUTUBE", "YOUTUBE SHORTS"} -> "YouTube"
          [] k \in {"X", "TWITTER", "X (TWITTER)"} -> "X (Twitter)"
          [] k \in {"LEMON 8", "LEMON8"} -> "Lemon 8"]

_normalize_platform(value) ==
    LET raw == str_upper(_stringify(value))
    IN  get(platform_mapping, raw, _stringify(value))

(* mutant of _normalize_content_type: a story is not taken for a video *)
_normalize_content_type_without_story(value) ==
    LET raw == str_lower(_stringify(value))
    IN  IF contains("video", raw) \/ contains("reel", raw)
        THEN "Video Post" ELSE "Static Post"

_normalize_content_type(value) ==
    LET raw == str_lower(_stringify(value))
    IN  IF contains("video", raw) \/ contains("reel", raw) \/ contains("story", raw)
        THEN "Video Post" ELSE "Static Post"

tier_mapping ==
    [k \in {"MEGA", "MACRO", "MIDTIER", "MID-TIER", "MID TIER", "MICRO", "NANO"} |->
        CASE k = "MEGA" -> "Mega"
          [] k = "MACRO" -> "Macro"
          [] k \in {"MIDTIER", "MID-TIER", "MID TIER"} -> "Mid-tier"
          [] k = "MICRO" -> "Micro"
          [] k = "NANO" -> "Nano"]

(* mutant of _normalize_tier: an unknown tier text is passed through *)
_normalize_tier_passing(value) ==
    LET raw == str_upper(replace(replace(_stringify(value), "-"), " "))
    IN  get(tier_mapping, raw, _stringify(value))

_normalize_tier(value) ==
    LET raw == str_upper(replace(replace(_stringify(value), "-"), " "))
    IN  get(tier_mapping, raw, "Macro")

(* the order of groupby(platform, content_type, tier) followed by the
   stable sort_values(platform, tier) *)
group_lt(a, b) ==
    \/ str_lt(a.platform, b.platform)
    \/ a.platform = b.platform /\ str_lt(a.tier, b.tier)
    \/ a.platform = b.platform /\ a.tier = b.tier
       /\ str_lt(a.content_type, b.content_type)

(* the groups in ascending order *)
RECURSIVE sorted(_)
sorted(S) ==
    IF S = {} THEN <<>>
    ELSE LET first == CHOOSE x \in S : \A y \in S \ {x} : group_lt(x, y)
         IN  <<first>> \o sorted(S \ {first})

(* the normalized rows of the sheet, rows without a profile dropped *)
working_rows(sheet) ==
    LET normalized(row) ==
            LET platform == _normalize_platform(row.Network)
                content_type == _normalize_content_type(row.ContentType)
                allowed == get_allowed_content_options(platform)
            IN  [profile |-> _stringify(row.Profile),
                 platform |-> platform,
                 tier |-> _normalize_tier(row.CreatorTier),
                 content_type |->
                     IF \E i \in 1..Len(allowed) : allowed[i] = content_type
                     THEN content_type ELSE allowed[1]]
    IN  SelectSeq([i \in 1..Len(sheet) |-> normalized(sheet[i])],
                  LAMBDA r : r.profile # "")

parse_creator_upload(uploaded_file) ==
    IF IsNone(uploaded_file) THEN Raise("ValueError")
    ELSE LET working == working_rows(uploaded_file.sheet)
             keys == {[platform |-> working[i].platform,
                       content_type |-> working[i].content_type,
                       tier |-> working[i].tier] : i \in 1..Len(working)}
             size(k) == Cardinality({i \in 1..Len(working) :
                                       /\ working[i].platform = k.platform
                                       /\ working[i].content_type = k.content_type
                                       /\ working[i].tier = k.tier})
             ordered == sorted(keys)
             grouped == [i \in 1..Len(ordered) |->
                            [num_posts |-> size(ordered[i])] @@ ordered[i]]
         IN  Return([grouped |-> grouped,
                     summary |-> [total_posts |-> Len(working)]])

(* the texts of an uploaded sheet *)
TierTexts ==
    {"Mega", "MACRO", "macro", "Mid-tier", "Mid Tier", "mid_tier", "MIDTIER",
     " micro ", "Nano", "nano.", "Celebrity", ""}
PlatformTexts ==
    {"TIKTOK", "Tik Tok", "tiktok", "X (Twitter)", "X(Twitter)", "x", "Twitter",
     "YouTube Shorts", "Lemon8", "instagram ", "Facebook", "Threads"}
ContentTexts ==
    {"Video", "REEL", "Instagram Story", "Photo", "Carousel", "static post",
     "Reels", "", "vid"}
Profiles == {"alice", " "}

SheetRow(pr, n, t, c) ==
    [Profile |-> pr, Network |-> n, CreatorTier |-> t, ContentType |-> c]
NarrowSheetRows ==
    {SheetRow(pr, n, t, "Photo") :
        pr \in {"alice", " "}, n \in {"tiktok", "Facebook", "x"},
        t \in {"Mid Tier", "nano."}}
UploadedFiles ==
    {None}
    \cup {[sheet |-> rws] : rws \in SeqsUpTo(NarrowSheetRows, MaxRows)}
    \cup {[sheet |-> <<SheetRow(pr, n, t, c)>>] :
             pr \in Profiles, n \in PlatformTexts, t \in TierTexts, c \in ContentTexts}

(* ------------------------ session and database ------------------------ *)

WIZARD_STEPS == <<"Campaign Brief", "Echo Studio", "Echo Impact Report">>
Steps == {WIZARD_STEPS[i] : i \in 1..Len(WIZARD_STEPS)}

(* the signed-in user *)
SignedIn == [id |-> Num(1)]

(* st.session_state of a fresh session on the Campaign Builder page; None
   stands for a key that is not there and for the empty campaign_info *)
NewSession ==
    [user |-> SignedIn,
     wizard_completed |-> [step \in Steps |-> FALSE],
     active_wizard_step |-> WIZARD_STEPS[1],
     campaign_info |-> None,
     media_editor |-> None,
     creator_editor |-> None,
     community_editor |-> None,
     last_result |-> None,
     last_inv |-> None,
     editing_campaign_id |-> None]

(* the campaign tables of a database nothing was saved to *)
EmptyTables ==
    [campaigns |-> <<>>, creator_echo_entries |-> <<>>,
     media_echo_entries |-> <<>>, community_echo_entries |-> <<>>]

(* the most campaigns the campaigns table holds in the model *)
MaxCampaigns == 2

(* an object sqlite3 cannot bind as a statement parameter: a list, a dict *)
Unsupported == [unsupported |-> TRUE]
binds(v) == "unsupported" \notin DOMAIN v

(* the REAL columns of the three entry tables *)
REAL_COLUMNS ==
    [creator_echo_entries |-> {"num_posts", "rate"},
     media_echo_entries |-> {"mentions"},
     community_echo_entries |->
         {"content_creation", "passive_engagement", "active_engagement",
          "amplification"}]

(* the parameter dictionaries the three replace functions build from a row;
   the rows of the model always carry their text columns *)
creator_entry(campaign_id, row) ==
    [campaign_id |-> campaign_id,
     platform |-> row.platform,
     content_type |-> row.content_type,
     tier |-> row.tier,
     num_posts |-> get(row, "num_posts", Num(0)),
     rate |-> get(row, "rate", Num(0)),
     source_campaign_id |-> get(row, "source_campaign_id", None)]

media_entry(campaign_id, row) ==
    [campaign_id |-> campaign_id,
     channel_type |-> row.channel_type,
     tier_name |-> row.tier_name,
     mentions |-> get(row, "mentions", Num(0)),
     source_campaign_id |-> get(row, "source_campaign_id", None)]

community_entry(campaign_id, row) ==
    [campaign_id |-> campaign_id,
     platform |-> row.platform,
     content_creation |-> get(row, "content_creation", Num(0)),
     passive_engagement |-> get(row, "passive_engagement", Num(0)),
     active_engagement |-> get(row, "active_engagement", Num(0)),
     amplification |-> get(row, "amplification", Num(0)),
     source_campaign_id |-> get(row, "source_campaign_id", None)]

campaign_ids(tbls) == {tbls.campaigns[i].id : i \in 1..Len(tbls.campaigns)}

RECURSIVE executemany(_, _, _)
(* conn.executemany of the INSERT: one entry after the other, stopping at
   the first one that cannot be bound or that refers to no campaign
   (FOREIGN KEY with PRAGMA foreign_keys = ON) *)
executemany(working, name, entries) ==
    IF entries = <<>> THEN [tables |-> working, ret |-> Return(None)]
    ELSE LET e == Head(entries)
         IN  IF \E col \in REAL_COLUMNS[name] : ~binds(e[col])
             THEN [tables |-> working, ret |-> Raise("InterfaceError")]
             ELSE IF e.campaign_id \notin campaign_ids(working)
                  THEN [tables |-> working, ret |-> Raise("IntegrityError")]
                  ELSE executemany([working EXCEPT ![name] = Append(@, e)],
                                   name, Tail(entries))

(* mutant of transaction: every statement is committed as it runs *)
transaction_autocommit(before, out) == out

(* with get_conn() as conn: the block's statements are committed when it
   returns and rolled back when it raises *)
transaction(before, out) ==
    IF out.ret.raised THEN [tables |-> before, ret |-> out.ret] ELSE out

(* DELETE FROM <name> WHERE campaign_id = ? *)
delete_entries(working, name, campaign_id) ==
    [working EXCEPT
        ![name] = SelectSeq(@, LAMBDA e : e.campaign_id # campaign_id)]

(* the body the three replace functions share: the DELETE, the early return
   for no rows, the INSERT of every entry, in one transaction *)
replace_entries(tbls, name, campaign_id, entries) ==
    transaction(tbls,
        LET deleted == delete_entries(tbls, name, campaign_id)
        IN  IF entries = <<>>
            THEN [tables |-> deleted, ret |-> Return(None)]
            ELSE executemany(deleted, name, entries))

replace_creator_rows(tbls, campaign_id, rows) ==
    replace_entries(tbls, "creator_echo_entries", campaign_id,
                    [i \in 1..Len(rows) |-> creator_entry(campaign_id, rows[i])])

replace_media_rows(tbls, campaign_id, rows) ==
    replace_entries(tbls, "media_echo_entries", campaign_id,
                    [i \in 1..Len(rows) |-> media_entry(campaign_id, rows[i])])

replace_community_rows(tbls, campaign_id, rows) ==
    replace_entries(tbls, "community_echo_entries", campaign_id,
                    [i \in 1..Len(rows) |-> community_entry(campaign_id, rows[i])])

(* SELECT <columns> FROM <name> WHERE campaign_id = ?, as a DataFrame *)
fetch_entries(tbls, name, campaign_id) ==
    LET hits == SelectSeq(tbls[name], LAMBDA e : e.campaign_id = campaign_id)
    IN  [i \in 1..Len(hits) |->
            [col \in DOMAIN hits[i] \ {"campaign_id"} |-> hits[i][col]]]

fetch_creator_rows(tbls, campaign_id) ==
    DataFrame(CreatorColumns \cup {"rate", "source_campaign_id"},
              fetch_entries(tbls, "creator_echo_entries", campaign_id))

fetch_media_rows(tbls, campaign_id) ==
    DataFrame(MediaColumns \cup {"source_campaign_id"},
              fetch_entries(tbls, "media_echo_entries", campaign_id))

fetch_community_rows(tbls, campaign_id) ==
    DataFrame(CommunityColumns \cup {"source_campaign_id"},
              fetch_entries(tbls, "community_echo_entries", campaign_id))

(* INSERT INTO campaigns: the summary row and its new id *)
insert_campaign(tbls, result, inv, campaign_name, client, owner_id) ==
    LET id == Len(tbls.campaigns) + 1
    IN  [tables |-> [tbls EXCEPT !.campaigns =
                        Append(@, [id |-> id, owner_id |-> owner_id,
                                   campaign_name |-> campaign_name,
                                   client |-> client,
                                   investment |-> inv,
                                   media_echo |-> result.media,
                                   creator_echo |-> result.creator,
                                   community_echo |-> result.community,
                                   tev |-> result.tev])],
         ret |-> Return(id)]

(* UPDATE campaigns SET ... WHERE id = :id, for the keys the wizard passes *)
update_campaign(tbls, campaign_id, payload) ==
    [tables |-> [tbls EXCEPT !.campaigns =
                    [i \in 1..Len(@) |->
                        IF @[i].id = campaign_id
                        THEN [@[i] EXCEPT !.campaign_name = payload.campaign_name,
                                          !.client = payload.client,
                                          !.investment = payload.investment,
                                          !.media_echo = payload.media_echo,
                                          !.creator_echo = payload.creator_echo,
                                          !.community_echo = payload.community_echo,
                                          !.tev = payload.tev]
                        ELSE @[i]]],
     ret |-> Return(None)]

(* SELECT ... FROM campaigns [WHERE owner_id = :owner_id] ORDER BY
   datetime(created_at) DESC, the newest campaign first; the WHERE clause is
   there for a truthy owner_id only (if owner_id:) *)
fetch_campaigns(tbls, owner_id) ==
    LET hits == SelectSeq(tbls.campaigns,
                          LAMBDA c : truthy(owner_id) => c.owner_id = owner_id)
    IN  [i \in 1..Len(hits) |-> hits[Len(hits) + 1 - i]]

(* ---- the campaign wizard ---- *)

index(seq, x) == CHOOSE i \in 1..Len(seq) : seq[i] = x
members(seq) == {seq[i] : i \in 1..Len(seq)}

(* mutant of compute_accessible_steps: every step is accessible *)
compute_accessible_steps_unlocked(completed) == WIZARD_STEPS

(* mutant of compute_accessible_steps: a later step needs only the step
   before it completed *)
compute_accessible_steps_skipping(completed) ==
    SelectSeq(WIZARD_STEPS,
              LAMBDA step_name :
                  \/ step_name = WIZARD_STEPS[1]
                  \/ completed[WIZARD_STEPS[index(WIZARD_STEPS, step_name) - 1]])

RECURSIVE accessible_from(_, _, _)
(* the loop of compute_accessible_steps from the step at idx on *)
accessible_from(idx, completed, accessible) ==
    IF idx > Len(WIZARD_STEPS) THEN accessible
    ELSE LET step_name == WIZARD_STEPS[idx]
         IN  IF idx = 1
             THEN IF ~completed[step_name]
                  THEN Append(accessible, step_name)
                  ELSE accessible_from(idx + 1, completed,
                                       Append(accessible, step_name))
             ELSE IF \A prev \in 1..(idx - 1) : completed[WIZARD_STEPS[prev]]
                  THEN IF ~completed[step_name]
                       THEN Append(accessible, step_name)
                       ELSE accessible_from(idx + 1, completed,
                                            Append(accessible, step_name))
                  ELSE accessible

compute_accessible_steps(completed) == accessible_from(1, completed, <<>>)

(* if active_step not in accessible_steps: active_step = accessible_steps[-1] *)
ensure_accessible(active_step, accessible_steps) ==
    IF active_step \notin members(accessible_steps)
    THEN accessible_steps[Len(accessible_steps)]
    ELSE active_step

(* go_to_next_step: the step after current, if there is one *)
go_to_next_step(session, current) ==
    LET idx == index(WIZARD_STEPS, current)
    IN  IF idx + 1 <= Len(WIZARD_STEPS)
        THEN [session EXCEPT !.active_wizard_step = WIZARD_STEPS[idx + 1]]
        ELSE session

reset_campaign_builder_state(session) ==
    [session EXCEPT !.campaign_info = None,
                    !.media_editor = None,
                    !.creator_editor = None,
                    !.community_editor = None,
                    !.last_result = None,
                    !.last_inv = None,
                    !.editing_campaign_id = None,
                    !.wizard_completed = [step \in Steps |-> FALSE],
                    !.active_wizard_step = WIZARD_STEPS[1]]

(* st.session_state.get("<kind>_editor", pd.DataFrame()) *)
editor(session, key) ==
    IF IsNone(session[key]) THEN EmptyFrame ELSE session[key]

(* _rows_from_df: the records of the table, none for an empty one *)
rows_from_df(df) == IF empty(df) THEN <<>> ELSE df.rows

save_campaign(tbls, session, result, inv, campaign_name, client, campaign_id) ==
    LET owner_id == session.user.id
        payload == [campaign_name |-> campaign_name, client |-> client,
                    investment |-> inv,
                    media_echo |-> result.media, creator_echo |-> result.creator,
                    community_echo |-> result.community, tev |-> result.tev]
        first == IF truthy(campaign_id)
                 THEN update_campaign(tbls, campaign_id.v, payload)
                 ELSE insert_campaign(tbls, result, inv, campaign_name, client,
                                      owner_id)
        id == IF truthy(campaign_id) THEN campaign_id.v ELSE first.ret.value
        creator_df == rows_from_df(editor(session, "creator_editor"))
        media_df == rows_from_df(editor(session, "media_editor"))
        community_df == rows_from_df(editor(session, "community_editor"))
        creator_rows == [i \in 1..Len(creator_df) |->
                            [source_campaign_id |-> None,
                             num_posts |-> get(creator_df[i], "num_posts", Num(0)),
                             rate |-> get(creator_df[i], "rate", Num(0))]
                            @@ creator_df[i]]
        media_rows == [i \in 1..Len(media_df) |->
                          [source_campaign_id |-> None] @@ media_df[i]]
        community_rows == [i \in 1..Len(community_df) |->
                              [source_campaign_id |-> None] @@ community_df[i]]
        creator == replace_creator_rows(first.tables, id, creator_rows)
        media == IF creator.ret.raised THEN creator
                 ELSE replace_media_rows(creator.tables, id, media_rows)
        community == IF media.ret.raised THEN media
                     ELSE replace_community_rows(media.tables, id, community_rows)
    IN  IF community.ret.raised THEN community
        ELSE [tables |-> community.tables, ret |-> Return(id)]

(* the creator rows "Open in builder" loads: a content type the platform
   does not allow becomes the platform's first allowed one *)
allowed_content(df) ==
    DataFrame(df.columns,
              [i \in 1..Len(df.rows) |->
                  LET row == df.rows[i]
                      allowed == get_allowed_content_options(row.platform)
                  IN  IF row.content_type \in members(allowed) THEN row
                      ELSE [row EXCEPT !.content_type = allowed[1]]])

(* the "Open in builder to recalculate" branch of the Campaign Performance
   page for the selected campaign *)
open_in_builder(session, tbls, selected_id) ==
    LET selected_row == tbls.campaigns[index([i \in 1..Len(tbls.campaigns) |->
                                                 tbls.campaigns[i].id], selected_id)]
        creator_rows_df == fetch_creator_rows(tbls, selected_id)
        media_rows_df == fetch_media_rows(tbls, selected_id)
        community_rows_df == fetch_community_rows(tbls, selected_id)
    IN  [reset_campaign_builder_state(session) EXCEPT
            !.editing_campaign_id = Num(selected_id),
            !.campaign_info = [campaign_name |-> selected_row.campaign_name,
                               campaign_client |-> selected_row.client,
                               campaign_investment |-> selected_row.investment],
            !.creator_editor = IF ~empty(creator_rows_df)
                               THEN allowed_content(creator_rows_df) ELSE @,
            !.media_editor = IF ~empty(media_rows_df) THEN media_rows_df ELSE @,
            !.community_editor = IF ~empty(community_rows_df)
                                 THEN community_rows_df ELSE @]

(* -------------------------------- auth --------------------------------- *)

ALGORITHM == "pbkdf2_sha256"

(* str.split(sep) for a one-character sep *)
RECURSIVE split(_, _)
split(s, sep) ==
    IF ~contains(sep, s) THEN <<s>>
    ELSE LET i == CHOOSE i \in 1..Len(s) :
                      Char(s, i) = sep /\ \A j \in 1..(i - 1) : Char(s, j) # sep
         IN  <<SubSeq(s, 1, i - 1)>> \o split(SubSeq(s, i + 1, Len(s)), sep)

(* decimal digits, with single underscores allowed between two digits *)
IsDecimal(s) ==
    /\ s # ""
    /\ \A i \in 1..Len(s) :
          \/ IsDigit(Char(s, i))
          \/ /\ Char(s, i) = "_"
             /\ 1 < i /\ i < Len(s)
             /\ IsDigit(Char(s, i - 1)) /\ IsDigit(Char(s, i + 1))

RECURSIVE digits_value(_, _)
digits_value(s, acc) ==
    IF s = "" THEN acc
    ELSE digits_value(SubSeq(s, 2, Len(s)),
                      IF Char(s, 1) = "_" THEN acc
                      ELSE acc * 10 + (ord(Char(s, 1)) - ord("0")))

(* int(text): blanks around, an optional sign, then the decimal digits *)
int(text) ==
    LET t == strip(text)
        signed == t # "" /\ Char(t, 1) \in {"+", "-"}
        body == IF signed THEN SubSeq(t, 2, Len(t)) ELSE t
    IN  IF ~IsDecimal(body) THEN Raise("ValueError")
        ELSE Return(IF signed /\ Char(t, 1) = "-"
                    THEN 0 - digits_value(body, 0) ELSE digits_value(body, 0))

HexDigits == "0123456789abcdef"
IsHex(c) == contains(str_lower(c), HexDigits)

(* bytes.fromhex: pairs of hex digits, blanks allowed between the pairs; the
   bytes are written as their lower-case hex digits *)
RECURSIVE fromhex(_)
fromhex(s) ==
    IF s = "" THEN Return("")
    ELSE IF Char(s, 1) = " " THEN fromhex(SubSeq(s, 2, Len(s)))
    ELSE IF Len(s) >= 2 /\ IsHex(Char(s, 1)) /\ IsHex(Char(s, 2))
         THEN LET rest == fromhex(SubSeq(s, 3, Len(s)))
              IN  IF rest.raised THEN rest
                  ELSE Return(str_lower(SubSeq(s, 1, 2)) \o rest.value)
         ELSE Raise("ValueError")

(* hashlib.pbkdf2_hmac rejects an iteration count below one; the digest of
   the model is one byte that the password, the salt and the count decide *)
_pbkdf2(password, salt, iterations) ==
    IF iterations < 1 THEN Raise("ValueError")
    ELSE LET n == (Len(password) + Len(salt) + iterations) % 256
         IN  Return(Char(HexDigits, (n \div 16) + 1) \o Char(HexDigits, (n % 16) + 1))

verify_password(password, encoded) ==
    IF encoded = "" \/ ~contains("$", encoded) THEN Return(FALSE)
    ELSE LET fields == split(encoded, "$")
         IN  IF Len(fields) # 4 THEN Return(FALSE)
             ELSE IF fields[1] # ALGORITHM THEN Return(FALSE)
             ELSE LET iterations == int(fields[2])
                      salt == fromhex(fields[3])
                      expected_digest == fromhex(fields[4])
                  IN  IF iterations.raised THEN Return(FALSE)
                      ELSE IF salt.raised \/ expected_digest.raised
                           THEN Return(FALSE)
                           ELSE LET candidate ==
                                        _pbkdf2(password, salt.value, iterations.value)
                                IN  IF candidate.raised THEN candidate
                                    ELSE Return(candidate.value
                                                  = expected_digest.value)

Passwords == {"pw", "secret", ""}

(* stored hashes of the right shape: two that verify "pw", one that verifies
   nothing *)
WellFormedHashes ==
    {"pbkdf2_sha256$1$00$05", "pbkdf2_sha256$120000$00$c4",
     "pbkdf2_sha256$1$AB$ff"}

(* corrupt stored hashes: empty, without "$", three and five fields, other
   algorithm names, iteration counts that are no integer or not positive,
   salts and digests that are no hex *)
CorruptHashes ==
    {"", "plain", "pbkdf2_sha256$1$00", "pbkdf2_sha256$1$00$05$05",
     "md5$1$00$05", "PBKDF2_SHA256$1$00$05",
     "pbkdf2_sha256$one$00$05", "pbkdf2_sha256$$00$05", "pbkdf2_sha256$1.5$00$05",
     "pbkdf2_sha256$0$00$05", "pbkdf2_sha256$-1$00$05",
     "pbkdf2_sha256$1$zz$05", "pbkdf2_sha256$1$0$05",
     "pbkdf2_sha256$1$00$0g", "pbkdf2_sha256$1$00$5"}

(* ------------------------------- actions ------------------------------- *)

NoCall == [fn |-> "none"]
NoMemo == [fn |-> "none"]
Threads == 1..MaxThreads
Entering == [at |-> "call"]

Init ==
    /\ db \in Stores
    /\ memo = NoMemo
    /\ threads = [t \in Threads |-> Entering]
    /\ session_state = NewSession
    /\ tables = EmptyTables
    /\ cache = Miss
    /\ reads = 0
    /\ pc = "idle"
    /\ call = NoCall
    /\ ret = None
    /\ frames = <<>>

(* one synchronous call from the idle caller: out is the function's outcome *)
Invoke(fn, args, out) ==
    /\ reads + out.reads <= MaxReads
    /\ pc' = "returned"
    /\ call' = [fn |-> fn, args |-> args]
    /\ ret' = out.ret
    /\ cache' = out.cache
    /\ reads' = reads + out.reads
    /\ frames' = out.frames
    /\ UNCHANGED <<db, memo, threads, session_state, tables>>

Call_load_reference_tables ==
    /\ pc = "idle"
    /\ Invoke("load_reference_tables", <<>>,
              load_reference_tables(cache, db) @@ [frames |-> <<>>])

Call_normalize_media_inputs ==
    /\ pc = "idle"
    /\ \E df \in MediaInputs \ {None} :
          Invoke("_normalize_media_inputs", <<df>>,
                 [ret |-> Return(_normalize_media_inputs(df)), cache |-> cache,
                  reads |-> 0,
                  frames |-> <<after_copy(df, _normalize_media_inputs(df))>>])

Call_normalize_creator_inputs ==
    /\ pc = "idle"
    /\ \E df \in CreatorInputs \ {None} :
          Invoke("_normalize_creator_inputs", <<df>>,
                 [ret |-> Return(_normalize_creator_inputs(df)), cache |-> cache,
                  reads |-> 0,
                  frames |-> <<after_copy(df, _normalize_creator_inputs(df))>>])

Call_calculate_media_echo ==
    /\ pc = "idle"
    /\ \E df \in MediaInputs :
          Invoke("calculate_media_echo", <<df>>, calculate_media_echo(df, cache, db))

Call_calculate_creator_echo ==
    /\ pc = "idle"
    /\ \E df \in CreatorInputs :
          Invoke("calculate_creator_echo", <<df>>, calculate_creator_echo(df, cache, db))

Call_calculate_community_echo ==
    /\ pc = "idle"
    /\ \E df \in CommunityInputs :
          Invoke("calculate_community_echo", <<df>>,
                 calculate_community_echo(df, cache, db))

Call_calculate_campaign ==
    /\ pc = "idle"
    /\ \E inv \in Investments, m \in CampaignMedia, c \in CampaignCreator,
          k \in CampaignCommunity :
          Invoke("calculate_campaign", <<inv, m, c, k>>,
                 calculate_campaign(inv, m, c, k, cache, db))

(* the caller takes the outcome and is ready for the next call *)
TakeResult ==
    /\ pc = "returned"
    /\ pc' = "idle"
    /\ call' = NoCall
    /\ ret' = None
    /\ frames' = <<>>
    /\ UNCHANGED <<db, cache, reads, memo, threads, session_state, tables>>

Next ==
    \/ Call_load_reference_tables
    \/ Call_normalize_media_inputs
    \/ Call_normalize_creator_inputs
    \/ Call_calculate_media_echo
    \/ Call_calculate_creator_echo
    \/ Call_calculate_community_echo
    \/ Call_calculate_campaign
    \/ TakeResult

Spec == Init /\ [][Next]_vars

(* the campaign calls whose record is remembered for a later comparison *)
ProbeCalls ==
    {a \in {Num(1)} \X CampaignMedia \X {None} \X CampaignCommunity :
        IsNone(a[4]) \/ "content_creation" \notin a[4].columns}

(* the valuators called directly on the tables of a campaign *)
Call_media_echo_of_campaign ==
    /\ pc = "idle"
    /\ \E df \in CampaignMedia :
          Invoke("calculate_media_echo", <<df>>, calculate_media_echo(df, cache, db))

Call_creator_echo_of_campaign ==
    /\ pc = "idle"
    /\ \E df \in CampaignCreator :
          Invoke("calculate_creator_echo", <<df>>, calculate_creator_echo(df, cache, db))

Call_community_echo_of_campaign ==
    /\ pc = "idle"
    /\ \E df \in CampaignCommunity :
          Invoke("calculate_community_echo", <<df>>,
                 calculate_community_echo(df, cache, db))

(* the caller keeps the record of a campaign call *)
Remember ==
    /\ pc = "returned"
    /\ call.fn = "calculate_campaign"
    /\ call.args \in ProbeCalls
    /\ ~ret.raised
    /\ memo = NoMemo
    /\ memo' = [fn |-> call.fn, args |-> call.args, ret |-> ret]
    /\ UNCHANGED <<db, cache, reads, pc, call, ret, frames, threads,
                   session_state, tables>>

(* the SQLite file behind get_conn is replaced or rewritten from outside *)
StoreChanges ==
    /\ db' \in Stores \ {db}
    /\ UNCHANGED <<cache, reads, pc, call, ret, frames, memo, threads,
                   session_state, tables>>

NextStore ==
    \/ Call_load_reference_tables
    \/ Call_media_echo_of_campaign
    \/ Call_creator_echo_of_campaign
    \/ Call_community_echo_of_campaign
    \/ Call_calculate_campaign
    \/ TakeResult
    \/ Remember
    \/ StoreChanges

SpecStore == Init /\ [][NextStore]_vars

(* concurrent requests entering load_reference_tables.  The lru_cache
   wrapper looks the key up, on a miss runs the body without holding any
   lock, and then stores the result unless the key has appeared meanwhile. *)
Lookup(t) ==
    /\ threads[t].at = "call"
    /\ threads' = [threads EXCEPT ![t] =
                      IF cache.hit
                      THEN [at |-> "done", ret |-> Return(cache.tables)]
                      ELSE [at |-> "body"]]
    /\ UNCHANGED <<db, cache, reads, pc, call, ret, frames, memo,
                   session_state, tables>>

Body(t) ==
    /\ threads[t].at = "body"
    /\ reads' = reads + 1
    /\ threads' = [threads EXCEPT ![t] =
                      LET r == read_sql_queries(db)
                      IN  IF r.raised THEN [at |-> "done", ret |-> r]
                          ELSE [at |-> "store", ret |-> r]]
    /\ UNCHANGED <<db, cache, pc, call, ret, frames, memo, session_state, tables>>

StoreResult(t) ==
    /\ threads[t].at = "store"
    /\ cache' = IF cache.hit THEN cache ELSE Hit(threads[t].ret.value)
    /\ threads' = [threads EXCEPT ![t].at = "done"]
    /\ UNCHANGED <<db, reads, pc, call, ret, frames, memo, session_state, tables>>

NextConcurrent ==
    \E t \in Threads : Lookup(t) \/ Body(t) \/ StoreResult(t)

SpecConcurrent == Init /\ [][NextConcurrent]_vars

(* the outcome of a function that touches neither the store nor a table *)
Pure(result) == [ret |-> result, cache |-> cache, reads |-> 0, frames |-> <<>>]

Call_normalize_platform ==
    /\ pc = "idle"
    /\ \E value \in PlatformTexts :
          Invoke("_normalize_platform", <<value>>,
                 Pure(Return(_normalize_platform(value))))

Call_normalize_tier ==
    /\ pc = "idle"
    /\ \E value \in TierTexts :
          Invoke("_normalize_tier", <<value>>, Pure(Return(_normalize_tier(value))))

Call_normalize_content_type ==
    /\ pc = "idle"
    /\ \E value \in ContentTexts :
          Invoke("_normalize_content_type", <<value>>,
                 Pure(Return(_normalize_content_type(value))))

Call_parse_creator_upload ==
    /\ pc = "idle"
    /\ \E uploaded_file \in UploadedFiles :
          Invoke("parse_creator_upload", <<uploaded_file>>,
                 Pure(parse_creator_upload(uploaded_file)))

NextUpload ==
    \/ Call_normalize_platform
    \/ Call_normalize_tier
    \/ Call_normalize_content_type
    \/ Call_parse_creator_upload
    \/ TakeResult

SpecUpload == Init /\ [][NextUpload]_vars

(* ---- the campaign tables ---- *)

OwnerIds == {Num(n) : n \in 0..2}
CampaignIds == 1..MaxCampaigns
SavedResult == [media |-> 1, creator |-> 2, community |-> 0, tev |-> 3]

CreatorRowLists ==
    {<<>>,
     <<CreatorRow("TikTok", "Video Post", "Micro", Num(1)),
       [platform |-> "Instagram", content_type |-> "Static Post", tier |-> "Macro"]>>,
     <<CreatorRow("TikTok", "Video Post", "Nano", Num(2)),
       CreatorRow("TikTok", "Video Post", "Mega", Unsupported)>>}
MediaRowLists ==
    {<<>>,
     <<MediaRow("Online Article", "Major", Num(2)),
       [channel_type |-> "Social Media", tier_name |-> "Tier 1"]>>,
     <<MediaRow("Online Article", "Industry", Num(1)),
       MediaRow("Social Media", "Tier 2", Unsupported)>>}
CommunityRowLists ==
    {<<>>,
     <<CommunityRow("Instagram", Num(1), Num(2), Num(0), Num(1)),
       [platform |-> "TikTok", passive_engagement |-> Num(1)]>>,
     <<CommunityRow("TikTok", Num(0), Num(1), Num(1), Num(0)),
       CommunityRow("Facebook", Num(1), Unsupported, Num(1), Num(1))>>}

(* one synchronous call of a db.py function: out is its outcome and the
   tables it leaves *)
Transact(fn, args, out) ==
    /\ pc' = "returned"
    /\ call' = [fn |-> fn, args |-> args]
    /\ ret' = out.ret
    /\ tables' = out.tables
    /\ UNCHANGED <<db, cache, reads, frames, memo, threads, session_state>>

(* two users save campaigns in turn *)
Call_insert_campaign ==
    /\ pc = "idle"
    /\ Len(tables.campaigns) < MaxCampaigns
    /\ \E owner_id \in {Num(1 + (Len(tables.campaigns) % 2))} :
          Transact("insert_campaign",
                   <<SavedResult, Num(1), "Launch", "Acme", owner_id>>,
                   insert_campaign(tables, SavedResult, Num(1), "Launch", "Acme",
                                   owner_id))

Call_replace_creator_rows ==
    /\ pc = "idle"
    /\ \E campaign_id \in CampaignIds, rows \in CreatorRowLists :
          Transact("replace_creator_rows", <<campaign_id, rows>>,
                   replace_creator_rows(tables, campaign_id, rows))

Call_replace_media_rows ==
    /\ pc = "idle"
    /\ \E campaign_id \in CampaignIds, rows \in MediaRowLists :
          Transact("replace_media_rows", <<campaign_id, rows>>,
                   replace_media_rows(tables, campaign_id, rows))

Call_replace_community_rows ==
    /\ pc = "idle"
    /\ \E campaign_id \in CampaignIds, rows \in CommunityRowLists :
          Transact("replace_community_rows", <<campaign_id, rows>>,
                   replace_community_rows(tables, campaign_id, rows))

Call_fetch_campaigns ==
    /\ pc = "idle"
    /\ \E owner_id \in OwnerIds :
          Transact("fetch_campaigns", <<owner_id>>,
                   [tables |-> tables,
                    ret |-> Return(fetch_campaigns(tables, owner_id))])

NextTables ==
    \/ Call_insert_campaign
    \/ Call_replace_creator_rows
    \/ Call_replace_media_rows
    \/ Call_replace_community_rows
    \/ Call_fetch_campaigns
    \/ TakeResult

SpecTables == Init /\ [][NextTables]_vars

(* ---- the Campaign Builder page ---- *)

(* the most campaigns the wizard saves as new ones *)
MaxSaved == 1

(* what the brief form holds when the step runs: a complete brief, one
   without a name, one without an investment and with the dates reversed *)
BriefForms ==
    {[campaign_name |-> "Launch", client |-> "Acme", inv |-> Num(2),
      duration_valid |-> TRUE],
     [campaign_name |-> "", client |-> "Acme", inv |-> Num(2),
      duration_valid |-> TRUE],
     [campaign_name |-> "Launch", client |-> "Acme", inv |-> Num(0),
      duration_valid |-> FALSE]}

(* what the open tab of Echo Studio stores: the rows of its editor *)
StudioEdits ==
    [key : {"media_editor"},
     frame : {DataFrame(MediaColumns,
                        <<MediaRow("Online Article", "Major", Num(2))>>)}]
    \cup [key : {"creator_editor"},
          frame : {DataFrame(CreatorColumns,
                             <<CreatorRow("TikTok", "Video Post", "Micro", Num(1))>>)}]
    \cup [key : {"community_editor"},
          frame : {DataFrame(CommunityColumns,
                             <<CommunityRow("Instagram", Num(1), Num(2), Num(0),
                                            Num(1))>>)}]

ReportButtons ==
    {"none", "Back to Echo Studio", "Calculate", "Save", "Start a new campaign"}

(* the page up to the accessibility check: the accessible steps, and an
   active step that is one of them *)
CheckAccessibleSteps ==
    /\ pc = "idle"
    /\ LET accessible_steps ==
               compute_accessible_steps(session_state.wizard_completed)
           active_step == ensure_accessible(session_state.active_wizard_step,
                                            accessible_steps)
       IN  /\ session_state' =
                  [session_state EXCEPT !.active_wizard_step = active_step]
           /\ call' = [fn |-> "campaign_builder",
                       accessible_steps |-> accessible_steps,
                       active_step |-> active_step]
    /\ pc' = "checked"
    /\ UNCHANGED <<db, cache, reads, ret, frames, memo, threads, tables>>

(* the sidebar radio over the accessible steps returns the active step or
   the step the user picks, and the page stores it as the active step *)
radio(session, accessible_steps, wizard_step) ==
    IF wizard_step \in members(accessible_steps)
    THEN [session EXCEPT !.active_wizard_step = wizard_step]
    ELSE session

(* the Campaign Brief step: the form decides whether the step is completed;
   Next stores the brief and moves on *)
RunCampaignBrief ==
    /\ pc = "checked"
    /\ "Campaign Brief" \in members(call.accessible_steps)
    /\ \E form \in BriefForms, next \in BOOLEAN :
          LET session == radio(session_state, call.accessible_steps,
                               "Campaign Brief")
              info_complete == /\ form.campaign_name # ""
                               /\ form.client # ""
                               /\ form.inv.v > 0
                               /\ form.duration_valid
              completed == [session EXCEPT
                               !.wizard_completed["Campaign Brief"] = info_complete]
          IN  session_state' =
                  IF info_complete /\ next
                  THEN go_to_next_step(
                           [completed EXCEPT
                               !.campaign_info =
                                   [campaign_name |-> form.campaign_name,
                                    campaign_client |-> form.client,
                                    campaign_investment |-> form.inv]],
                           "Campaign Brief")
                  ELSE completed
    /\ pc' = "idle"
    /\ call' = NoCall
    /\ UNCHANGED <<db, cache, reads, ret, frames, memo, threads, tables>>

(* the Echo Studio step: the open tab's editor is stored, the step is
   completed, and "Next tab ->" on the last tab or "Next: Echo Impact
   Report" moves on *)
RunEchoStudio ==
    /\ pc = "checked"
    /\ "Echo Studio" \in members(call.accessible_steps)
    /\ \E edit \in StudioEdits, next \in BOOLEAN :
          LET session == radio(session_state, call.accessible_steps, "Echo Studio")
              edited == [session EXCEPT
                            ![edit.key] = edit.frame,
                            !.wizard_completed["Echo Studio"] = TRUE]
          IN  session_state' =
                  IF next THEN go_to_next_step(edited, "Echo Studio") ELSE edited
    /\ pc' = "idle"
    /\ call' = NoCall
    /\ UNCHANGED <<db, cache, reads, ret, frames, memo, threads, tables>>

(* the Echo Impact Report step with the button that was clicked *)
RunEchoImpactReport ==
    /\ pc = "checked"
    /\ "Echo Impact Report" \in members(call.accessible_steps)
    /\ \E button \in ReportButtons :
          LET session == radio(session_state, call.accessible_steps,
                               "Echo Impact Report")
              campaign_data == session.campaign_info
              campaign_name == get(campaign_data, "campaign_name", "")
              client == get(campaign_data, "campaign_client", "")
              inv == get(campaign_data, "campaign_investment", Num(0))
              out == calculate_campaign(inv,
                                        editor(session, "media_editor"),
                                        editor(session, "creator_editor"),
                                        editor(session, "community_editor"),
                                        cache, db)
              calculated == IF button = "Calculate" /\ inv.v > 0 /\ ~out.ret.raised
                            THEN [session EXCEPT !.last_result = out.ret.value,
                                                 !.last_inv = inv]
                            ELSE session
              editing_id == session.editing_campaign_id
              last_inv == IF IsNone(session.last_inv) THEN inv ELSE session.last_inv
          IN  CASE button = "Back to Echo Studio" ->
                     /\ session_state' =
                            [session EXCEPT !.active_wizard_step = "Echo Studio"]
                     /\ UNCHANGED <<cache, reads, tables>>
                [] button = "Calculate" /\ inv.v > 0 ->
                     /\ reads + out.reads <= MaxReads
                     /\ cache' = out.cache
                     /\ reads' = reads + out.reads
                     /\ session_state' = calculated
                     /\ UNCHANGED tables
                [] button = "Save" ->
                     /\ ~IsNone(session.last_result)
                     /\ campaign_name # "" /\ client # ""
                     /\ truthy(editing_id) \/ Len(tables.campaigns) < MaxSaved
                     /\ tables' = save_campaign(tables, session,
                                                session.last_result, last_inv,
                                                campaign_name, client,
                                                editing_id).tables
                     /\ session_state' = session
                     /\ UNCHANGED <<cache, reads>>
                [] button = "Start a new campaign" ->
                     /\ ~IsNone(session.last_result)
                     /\ session_state' = reset_campaign_builder_state(session)
                     /\ UNCHANGED <<cache, reads, tables>>
                [] OTHER ->
                     /\ session_state' = session
                     /\ UNCHANGED <<cache, reads, tables>>
    /\ pc' = "idle"
    /\ call' = NoCall
    /\ UNCHANGED <<db, ret, frames, memo, threads>>

(* the sidebar's "Create New Campaign" button *)
Click_start_new_campaign ==
    /\ pc = "idle"
    /\ session_state' = reset_campaign_builder_state(session_state)
    /\ UNCHANGED <<db, cache, reads, pc, call, ret, frames, memo, threads, tables>>

(* "Open in builder to recalculate" on a saved campaign *)
Click_open_in_builder ==
    /\ pc = "idle"
    /\ \E selected_id \in campaign_ids(tables) :
          session_state' = open_in_builder(session_state, tables, selected_id)
    /\ UNCHANGED <<db, cache, reads, pc, call, ret, frames, memo, threads, tables>>

NextWizard ==
    \/ CheckAccessibleSteps
    \/ RunCampaignBrief
    \/ RunEchoStudio
    \/ RunEchoImpactReport
    \/ Click_start_new_campaign
    \/ Click_open_in_builder

(* the wizard runs on a deployment with its reference tables, or on one
   whose reference database lacks them *)
InitWizard == Init /\ db \in {SeededStore, MissingStore}

SpecWizard == InitWizard /\ [][NextWizard]_vars

(* ---- sign-in ---- *)

Call_verify_password ==
    /\ pc = "idle"
    /\ \E password \in Passwords, encoded \in WellFormedHashes \cup CorruptHashes :
          Invoke("verify_password", <<password, encoded>>,
                 Pure(verify_password(password, encoded)))

NextAuth ==
    \/ Call_verify_password
    \/ TakeResult

SpecAuth == Init /\ [][NextAuth]_vars

TypeOK ==
    /\ db \in Stores
    /\ cache.hit \in BOOLEAN
    /\ pc \in {"idle", "returned", "checked"}
    /\ (pc = "idle") = (call = NoCall)
    /\ (pc = "idle") => (ret = None /\ frames = <<>>)
    /\ reads \in 0..(MaxReads + MaxThreads)
    /\ cache.hit => reads >= 1

(* ------------------------------ properties ----------------------------- *)

Returned(fn) == pc = "returned" /\ call.fn = fn
(* the table is None or has no rows *)
Absent(df) == IsNone(df) \/ Len(df.rows) = 0

(* the outcomes of the three valuators on the inputs of the campaign call
   that has just returned *)
MediaOf == calculate_media_echo(call.args[2], cache, db).ret
CreatorOf == calculate_creator_echo(call.args[3], cache, db).ret
CommunityOf == calculate_community_echo(call.args[4], cache, db).ret
ValuatorsReturn == ~MediaOf.raised /\ ~CreatorOf.raised /\ ~CommunityOf.raised

IsPositive(inv) == ~IsNone(inv) /\ inv.v > 0

(* C1: every record returned by calculate_campaign has tev = media +
   creator + community, the three being the values of the valuators on
   the same input tables. *)
C1_TevIsSumOfEchoes ==
    (Returned("calculate_campaign") /\ ~ret.raised) =>
        /\ ValuatorsReturn
        /\ ret.value.media = MediaOf.value
        /\ ret.value.creator = CreatorOf.value
        /\ ret.value.community = CommunityOf.value
        /\ ret.value.tev = MediaOf.value + CreatorOf.value + CommunityOf.value

C1_Witness ==
    /\ Returned("calculate_campaign") /\ ~ret.raised
    /\ ret.value.media > 0 /\ ret.value.creator > 0 /\ ret.value.community > 0

(* C2: for investment > 0 the returned record has roi_m = tev / investment
   and roi_pct = (tev - investment) / investment * 100, for the tev of the
   same record (both stated without division: q = n / d iff q.num * d =
   n * q.den). *)
C2_RoiOfPositiveInvestment ==
    (Returned("calculate_campaign") /\ IsPositive(call.args[1]) /\ ValuatorsReturn) =>
        /\ ~ret.raised
        /\ LET r == ret.value
               inv == call.args[1].v
           IN  /\ r.roi_m.den > 0 /\ r.roi_pct.den > 0
               /\ r.roi_m.num * inv = r.tev * r.roi_m.den
               /\ r.roi_pct.num * inv = (r.tev - inv) * 100 * r.roi_pct.den

C2_Witness ==
    /\ Returned("calculate_campaign") /\ ~ret.raised
    /\ IsPositive(call.args[1])
    /\ ret.value.tev > call.args[1].v
    /\ ret.value.roi_m.den > 1

(* C3: for investment <= 0 or absent, calculate_campaign adds no error of
   its own: whenever the three valuators return, it returns a record with
   roi_m = 0 and roi_pct = 0 whose media, creator, community and tev are the
   values computed from the inputs. *)
C3_NonPositiveInvestmentGivesZeroRoi ==
    (Returned("calculate_campaign") /\ ~IsPositive(call.args[1]) /\ ValuatorsReturn) =>
        /\ ~ret.raised
        /\ ret.value.roi_m = Zero
        /\ ret.value.roi_pct = Zero
        /\ ret.value.media = MediaOf.value
        /\ ret.value.creator = CreatorOf.value
        /\ ret.value.community = CommunityOf.value
        /\ ret.value.tev = MediaOf.value + CreatorOf.value + CommunityOf.value

C3_Witness ==
    /\ Returned("calculate_campaign") /\ ~ret.raised
    /\ ~IsNone(call.args[1]) /\ call.args[1].v < 0
    /\ ret.value.tev > 0
    /\ ret.value.roi_m = Zero /\ ret.value.roi_pct = Zero

(* ---- the valuators, stated independently of the merge ---- *)

Arg == call.args[1]
Rows == call.args[1].rows
Qty(c) == IF IsNa(c) THEN 0 ELSE c.v

(* the quantity columns of each valuator's input *)
QuantityColumns ==
    [calculate_media_echo |-> {"mentions"},
     calculate_creator_echo |-> {"num_posts"},
     calculate_community_echo |->
        {"content_creation", "passive_engagement", "active_engagement",
         "amplification"}]

IsValuator == call.fn \in DOMAIN QuantityColumns

Quantity(row) ==
    {row[col] : col \in QuantityColumns[call.fn] \cap DOMAIN row}

(* the table has rows, every quantity column of its valuator, and numbers
   or nulls in them *)
WellFormed(df) ==
    /\ ~Absent(df)
    /\ \A i \in 1..Len(df.rows) : \A col \in QuantityColumns[call.fn] :
          col \in DOMAIN df.rows[i] /\ ~IsText(df.rows[i][col])

RECURSIVE Sigma(_)
Sigma(s) == IF s = <<>> THEN 0 ELSE Head(s) + Sigma(Tail(s))

(* the label table of the media normalization *)
CanonicalType(tier_name) ==
    CASE tier_name = "Major" -> "Major national media"
      [] tier_name = "Industry" -> "Industry-specific"
      [] tier_name = "Local/Niche" -> "Local/niche"
      [] tier_name = "Tier 1" -> "1"
      [] tier_name = "Tier 2" -> "2"
      [] tier_name = "Tier 3" -> "3"
      [] OTHER -> tier_name

(* the label table of the creator normalization *)
CanonicalContentType(content_type) ==
    CASE content_type = "Static Post" -> "Static/General Post"
      [] OTHER -> content_type

MediaHits(ref, row) ==
    {i \in DOMAIN ref : /\ ref[i].Category = row.channel_type
                        /\ ref[i].Type = CanonicalType(row.tier_name)}
CreatorHits(ref, row) ==
    {i \in DOMAIN ref : /\ ref[i].Platform = row.platform
                        /\ ref[i].Type = CanonicalContentType(row.content_type)
                        /\ ref[i].Tier = row.tier}
CommunityHits(ref, row) == {i \in DOMAIN ref : ref[i].platform = row.platform}

UniqueMediaKeys(ref) ==
    \A i, j \in DOMAIN ref :
        (ref[i].Category = ref[j].Category /\ ref[i].Type = ref[j].Type) => i = j
UniqueCreatorKeys(ref) ==
    \A i, j \in DOMAIN ref :
        (/\ ref[i].Platform = ref[j].Platform /\ ref[i].Type = ref[j].Type
         /\ ref[i].Tier = ref[j].Tier) => i = j

(* the value of column col in the entry picked by hits, 0 without entry *)
Rate(ref, hits, col) ==
    IF hits = {} THEN 0 ELSE ref[CHOOSE i \in hits : TRUE][col].v

Keep(rws, keep(_)) == SelectSeq(rws, keep)

(* C4: in each valuator a row whose key has no reference entry contributes
   0: with the reference tables in place the call does not raise and
   returns what it returns for the table without the unmatched rows. *)
C4_UnmatchedRowContributesZero ==
    /\ (Returned("calculate_media_echo") /\ WellFormed(Arg) /\ db.present) =>
          /\ ~ret.raised
          /\ ret = calculate_media_echo(
                      DataFrame(Arg.columns,
                                Keep(Rows, LAMBDA r : MediaHits(db.media_rate_reference, r) # {})),
                      cache, db).ret
    /\ (Returned("calculate_creator_echo") /\ WellFormed(Arg) /\ db.present) =>
          /\ ~ret.raised
          /\ ret = calculate_creator_echo(
                      DataFrame(Arg.columns,
                                Keep(Rows, LAMBDA r : CreatorHits(db.creator_rate_reference, r) # {})),
                      cache, db).ret
    /\ (Returned("calculate_community_echo") /\ WellFormed(Arg) /\ db.present) =>
          /\ ~ret.raised
          /\ ret = calculate_community_echo(
                      DataFrame(Arg.columns,
                                Keep(Rows, LAMBDA r : CommunityHits(db.community_rate_reference, r) # {})),
                      cache, db).ret

C4_Witness ==
    /\ Returned("calculate_media_echo") /\ ~Absent(Arg) /\ db = SeededStore
    /\ Len(Rows) = 2
    /\ MediaHits(db.media_rate_reference, Rows[1]) = {}
    /\ Qty(Rows[1].mentions) > 0
    /\ MediaHits(db.media_rate_reference, Rows[2]) # {}
    /\ ~ret.raised
    /\ ret.value = Qty(Rows[2].mentions) * 5
    /\ ret.value > 0

(* C5: each valuator returns exactly 0 for an input that is None or has no
   rows, whether the reference tables are loaded, not loaded, empty or
   impossible to load. *)
C5_AbsentInputGivesZero ==
    (/\ \/ Returned("calculate_media_echo")
        \/ Returned("calculate_creator_echo")
        \/ Returned("calculate_community_echo")
     /\ Absent(Arg)) => ret = Return(0)

C5_Witness ==
    /\ Returned("calculate_creator_echo")
    /\ ~IsNone(Arg) /\ Arg.columns # {} /\ Len(Rows) = 0
    /\ ~db.present
    /\ ret = Return(0)

(* C6: with unique (category, type) keys in the media reference table,
   calculate_media_echo returns the sum over the input rows, each counted
   once, of mentions times the tier_value of the entry keyed by
   (channel_type, normalized tier_name). *)
C6_MediaEchoIsSumOfMentionsTimesRate ==
    (/\ Returned("calculate_media_echo") /\ WellFormed(Arg) /\ db.present
     /\ UniqueMediaKeys(db.media_rate_reference)) =>
        /\ ~ret.raised
        /\ ret.value =
              Sigma([i \in 1..Len(Rows) |->
                        Qty(Rows[i].mentions)
                        * Rate(db.media_rate_reference,
                               MediaHits(db.media_rate_reference, Rows[i]),
                               "tier_value")])

C6_Witness ==
    /\ Returned("calculate_media_echo") /\ db = SeededStore /\ ~Absent(Arg)
    /\ Len(Rows) = 2
    /\ Rows[1] = MediaRow("Online Article", "Major", Num(2))
    /\ Rows[2] = MediaRow("Social Media", "Tier 1", Num(1))
    /\ ret = Return(17)

(* C7: with unique (platform, content_type, tier) keys in the creator
   reference table, calculate_creator_echo returns the sum over the input
   rows, each counted once, of num_posts times the rate of the entry keyed
   by (platform, normalized content_type, tier). *)
C7_CreatorEchoIsSumOfPostsTimesRate ==
    (/\ Returned("calculate_creator_echo") /\ WellFormed(Arg) /\ db.present
     /\ UniqueCreatorKeys(db.creator_rate_reference)) =>
        /\ ~ret.raised
        /\ ret.value =
              Sigma([i \in 1..Len(Rows) |->
                        Qty(Rows[i].num_posts)
                        * Rate(db.creator_rate_reference,
                               CreatorHits(db.creator_rate_reference, Rows[i]),
                               "Rate")])

C7_Witness ==
    /\ Returned("calculate_creator_echo") /\ db = SeededStore /\ ~Absent(Arg)
    /\ Len(Rows) = 2
    /\ Rows[1] = CreatorRow("TikTok", "Static Post", "Micro", Num(2))
    /\ Rows[2] = CreatorRow("TikTok", "Video Post", "Macro", Num(1))
    /\ ret = Return(60)

(* what one community row is worth under the weights of the entry whose
   platform equals the row's platform string *)
CommunityValue(ref, row) ==
    LET hits == CommunityHits(ref, row)
    IN  Qty(row.content_creation) * Rate(ref, hits, "weight_content")
        + Qty(row.passive_engagement) * Rate(ref, hits, "weight_passive")
        + Qty(row.active_engagement) * Rate(ref, hits, "weight_active")
        + Qty(row.amplification) * Rate(ref, hits, "weight_amplification")

(* p is no reference platform but spells one in another letter case *)
CaseVariantOnly(ref, p) ==
    /\ \A i \in DOMAIN ref : ref[i].platform # p
    /\ \E i \in DOMAIN ref : lower(ref[i].platform) = lower(p)

(* C8: calculate_community_echo joins on the platform string as given,
   compared exactly, and returns the sum over the input rows of the four
   quantities times the four weights of the matching platform; rows whose
   platform only differs in case from a reference platform are worth 0. *)
C8_CommunityEchoJoinsOnExactPlatform ==
    (Returned("calculate_community_echo") /\ WellFormed(Arg) /\ db.present) =>
        /\ ~ret.raised
        /\ ret.value =
              Sigma([i \in 1..Len(Rows) |->
                        CommunityValue(db.community_rate_reference, Rows[i])])
        /\ (\A i \in 1..Len(Rows) :
                CaseVariantOnly(db.community_rate_reference, Rows[i].platform))
           => ret.value = 0

C8_Witness ==
    /\ Returned("calculate_community_echo") /\ db = SeededStore /\ ~Absent(Arg)
    /\ Len(Rows) = 2
    /\ Rows[1] = CommunityRow("Instagram", Num(1), Num(1), Num(1), Num(1))
    /\ Rows[2] = CommunityRow("instagram", Num(1), Num(1), Num(1), Num(1))
    /\ ret = Return(76)

(* the table in which the first two rows are replaced by row *)
Merged(row) == DataFrame(Arg.columns, <<row>> \o SubSeq(Rows, 3, Len(Rows)))
TwoRows == WellFormed(Arg) /\ Len(Rows) >= 2
Numbers(a, b) == "v" \in DOMAIN a /\ "v" \in DOMAIN b

(* C9: rows with the same key accumulate additively: in every valuator a
   table whose first two rows have the same key and the quantities a and b
   gives the same value as the table with one row of that key and the
   quantity a + b in their place. *)
C9_SameKeyRowsAccumulate ==
    /\ (/\ Returned("calculate_media_echo") /\ TwoRows
        /\ Rows[1].channel_type = Rows[2].channel_type
        /\ Rows[1].tier_name = Rows[2].tier_name
        /\ Numbers(Rows[1].mentions, Rows[2].mentions)) =>
          ret = calculate_media_echo(
                   Merged([Rows[1] EXCEPT !.mentions = Add(@, Rows[2].mentions)]),
                   cache, db).ret
    /\ (/\ Returned("calculate_creator_echo") /\ TwoRows
        /\ Rows[1].platform = Rows[2].platform
        /\ Rows[1].content_type = Rows[2].content_type
        /\ Rows[1].tier = Rows[2].tier
        /\ Numbers(Rows[1].num_posts, Rows[2].num_posts)) =>
          ret = calculate_creator_echo(
                   Merged([Rows[1] EXCEPT !.num_posts = Add(@, Rows[2].num_posts)]),
                   cache, db).ret
    /\ (/\ Returned("calculate_community_echo") /\ TwoRows
        /\ Rows[1].platform = Rows[2].platform
        /\ Numbers(Rows[1].content_creation, Rows[2].content_creation)
        /\ Numbers(Rows[1].passive_engagement, Rows[2].passive_engagement)
        /\ Numbers(Rows[1].active_engagement, Rows[2].active_engagement)
        /\ Numbers(Rows[1].amplification, Rows[2].amplification)) =>
          ret = calculate_community_echo(
                   Merged([Rows[1] EXCEPT
                             !.content_creation = Add(@, Rows[2].content_creation),
                             !.passive_engagement = Add(@, Rows[2].passive_engagement),
                             !.active_engagement = Add(@, Rows[2].active_engagement),
                             !.amplification = Add(@, Rows[2].amplification)]),
                   cache, db).ret

C9_Witness ==
    /\ Returned("calculate_creator_echo") /\ db = SeededStore /\ TwoRows
    /\ Rows[1] = CreatorRow("TikTok", "Video Post", "Micro", Num(1))
    /\ Rows[2] = CreatorRow("TikTok", "Video Post", "Micro", Num(2))
    /\ ret = Return(75)

(* C10: the media normalization maps tier_name exactly and with regard to
   case (Major, Industry, Local/Niche, Tier 1, Tier 2, Tier 3 to their
   canonical types), keeps every other tier_name as the join key, takes
   channel_type as the category key, and leaves the input columns alone. *)
C10_MediaNormalizationIsExact ==
    Returned("_normalize_media_inputs") =>
        /\ ~ret.raised
        /\ Len(ret.value.rows) = Len(Rows)
        /\ \A i \in 1..Len(Rows) :
              /\ ret.value.rows[i].TypeForJoin = CanonicalType(Rows[i].tier_name)
              /\ ret.value.rows[i].Category = Rows[i].channel_type
              /\ \A col \in Arg.columns : ret.value.rows[i][col] = Rows[i][col]

C10_Witness ==
    /\ Returned("_normalize_media_inputs")
    /\ Len(Rows) = 1
    /\ Rows[1].tier_name = "major"
    /\ Rows[1].channel_type = "Social Media"
    /\ ret.value.rows[1].TypeForJoin = "major"
    /\ ret.value.rows[1].Category = "Social Media"

(* C11: the creator normalization maps content_type "Static Post" to
   "Static/General Post" and "Video Post" to "Video Post", keeps every other
   content_type as the join key unchanged, and never remaps platform or
   tier (nor any other input column). *)
C11_CreatorNormalizationMapsContentTypeOnly ==
    Returned("_normalize_creator_inputs") =>
        /\ ~ret.raised
        /\ Len(ret.value.rows) = Len(Rows)
        /\ \A i \in 1..Len(Rows) :
              /\ ret.value.rows[i].TypeForJoin =
                    (IF Rows[i].content_type = "Static Post"
                     THEN "Static/General Post" ELSE Rows[i].content_type)
              /\ ret.value.rows[i].platform = Rows[i].platform
              /\ ret.value.rows[i].tier = Rows[i].tier
              /\ \A col \in Arg.columns : ret.value.rows[i][col] = Rows[i][col]

C11_Witness ==
    /\ Returned("_normalize_creator_inputs")
    /\ ~Absent(Arg)
    /\ Len(Rows) = 1
    /\ Rows[1].content_type = "Reel"
    /\ Rows[1].platform = "tiktok"
    /\ ret.value.rows[1].TypeForJoin = "Reel"
    /\ ret.value.rows[1].platform = "tiktok"

HasNullQuantity(df) ==
    /\ ~Absent(df)
    /\ \E i \in 1..Len(df.rows) : \E q \in Quantity(df.rows[i]) : IsNa(q)

HasTextQuantity(df) ==
    /\ ~Absent(df)
    /\ \E i \in 1..Len(df.rows) : \E q \in Quantity(df.rows[i]) : IsText(q)

(* the table with quantity 0 written in place of every missing quantity *)
ZeroForNull(df) ==
    DataFrame(df.columns,
              [i \in 1..Len(df.rows) |->
                  [col \in DOMAIN df.rows[i] |->
                      IF col \in QuantityColumns[call.fn] /\ IsNa(df.rows[i][col])
                      THEN Num(0) ELSE df.rows[i][col]]])

Valuate(df) ==
    CASE call.fn = "calculate_media_echo" -> calculate_media_echo(df, cache, db).ret
      [] call.fn = "calculate_creator_echo" -> calculate_creator_echo(df, cache, db).ret
      [] call.fn = "calculate_community_echo" -> calculate_community_echo(df, cache, db).ret

(* C12: in every valuator a missing (null) quantity is treated as quantity
   0: with the reference tables loadable the call does not raise and
   returns what it returns for the same table with 0 in place of the
   missing quantities, whatever rate the row's key matches. *)
C12_NullQuantityCountsAsZero ==
    (/\ pc = "returned" /\ IsValuator /\ db.present
     /\ HasNullQuantity(Arg) /\ ~HasTextQuantity(Arg)) =>
        /\ ~ret.raised
        /\ ret = Valuate(ZeroForNull(Arg))

C12_Witness ==
    /\ Returned("calculate_community_echo") /\ db = SeededStore
    /\ ~Absent(Arg)
    /\ Rows = <<CommunityRow("Instagram", NaN, Num(2), Num(1), NaN)>>
    /\ ret = Return(7)

(* the table with quantity 0 written in place of every text quantity *)
ZeroForText(df) ==
    DataFrame(df.columns,
              [i \in 1..Len(df.rows) |->
                  [col \in DOMAIN df.rows[i] |->
                      IF col \in QuantityColumns[call.fn] /\ IsText(df.rows[i][col])
                      THEN Num(0) ELSE df.rows[i][col]]])

(* C13: in every valuator a quantity cell holding a non-numeric value (a
   text string) is coerced to quantity 0: the call does not raise and
   returns what it returns for the same table with 0 in place of the text,
   so that the other rows contribute normally. *)
C13_TextQuantityCountsAsZero ==
    (pc = "returned" /\ IsValuator /\ db.present /\ HasTextQuantity(Arg)) =>
        /\ ~ret.raised
        /\ ret = Valuate(ZeroForText(Arg))

(* the community table with a content_creation of 0 in every row *)
ZeroContentCreation(df) ==
    DataFrame(CommunityColumns,
              [i \in 1..Len(df.rows) |->
                  CommunityRow(df.rows[i].platform, Num(0),
                               df.rows[i].passive_engagement,
                               df.rows[i].active_engagement,
                               df.rows[i].amplification)])

(* C14: for a community table without a content_creation column,
   calculate_community_echo returns what it returns for the same rows with
   content_creation = 0, and with the reference tables loadable it does not
   raise. *)
C14_MissingContentCreationCountsAsZero ==
    (/\ Returned("calculate_community_echo") /\ ~Absent(Arg)
     /\ "content_creation" \notin Arg.columns) =>
        /\ ret = calculate_community_echo(ZeroContentCreation(Arg), cache, db).ret
        /\ db.present => ~ret.raised

C14_Witness ==
    /\ Returned("calculate_community_echo") /\ db = SeededStore /\ ~Absent(Arg)
    /\ "content_creation" \notin Arg.columns
    /\ Rows = <<EngagementRow("Instagram", Num(1), Num(1), Num(1)),
                EngagementRow("TikTok", Num(0), Num(1), Num(1))>>
    /\ ret = Return(39)

(* the tables the caller handed to the call *)
InputTables(c) ==
    IF c.fn = "calculate_campaign" THEN SubSeq(c.args, 2, 4)
    ELSE IF c.fn = "load_reference_tables" THEN <<>>
    ELSE <<c.args[1]>>

(* C16: a call of calculate_campaign, of a valuator or of a normalization
   leaves the caller's input tables as they were handed in, also when the
   content_creation column is synthesized, and leaves reference tables that
   are already cached as they are. *)
C16_CallsLeaveInputsAndCachedTablesAlone ==
    [][(pc = "idle" /\ pc' = "returned") =>
          /\ frames' = InputTables(call')
          /\ cache.hit => cache' = cache]_vars

C16_Witness ==
    /\ Returned("calculate_community_echo") /\ db = SeededStore /\ ~Absent(Arg)
    /\ "content_creation" \notin Arg.columns
    /\ ret = Return(13)
    /\ frames = <<Arg>>
    /\ "content_creation" \notin frames[1].columns
    /\ cache = Hit(read_sql_queries(db).value)

(* C15: calculate_campaign is deterministic: a call with the investment and
   the three tables of a remembered earlier call returns the record that
   call returned, whatever calls were made and whatever happened to the
   store in between. *)
C15_CampaignIsDeterministic ==
    (/\ Returned("calculate_campaign") /\ ~ret.raised
     /\ memo # NoMemo /\ memo.args = call.args) => ret = memo.ret

C15_Witness ==
    /\ Returned("calculate_campaign") /\ ~ret.raised
    /\ memo # NoMemo /\ memo.args = call.args
    /\ ~Absent(call.args[2])
    /\ ret = memo.ret
    /\ ret.value.tev > 0
    /\ db.present
    /\ cache.tables # read_sql_queries(db).value

(* C17: once the reference tables are cached, no call reads the store or
   replaces the cached tables, and a load_reference_tables call returns
   the cached tables, also when the store has changed since. *)
C17_LoadedOnceThenCached ==
    [][cache.hit =>
          /\ reads' = reads
          /\ cache' = cache
          /\ (pc = "idle" /\ pc' = "returned" /\ call'.fn = "load_reference_tables")
                => ret' = Return(cache.tables)]_vars

C17_Witness ==
    /\ Returned("load_reference_tables")
    /\ cache.hit /\ reads = 1
    /\ db.present
    /\ cache.tables # read_sql_queries(db).value
    /\ ret = Return(cache.tables)

(* some table of the campaign call has rows *)
HasInput(c) == \E i \in 2..4 : ~Absent(c.args[i])

(* C20: when the load of the reference tables fails during a campaign
   calculation with non-empty input, the failure reaches the caller
   instead of a record and is not cached; every call with non-empty input
   made while nothing is cached reads the store again. *)
C20_LoadFailurePropagatesAndIsNotCached ==
    [][(/\ pc = "idle" /\ pc' = "returned" /\ call'.fn = "calculate_campaign"
        /\ ~cache.hit /\ HasInput(call')) =>
          /\ reads' = reads + 1
          /\ ~db.present => (ret' = Raise("DatabaseError") /\ cache' = Miss)]_vars

C20_Witness ==
    /\ Returned("calculate_campaign")
    /\ reads = 2
    /\ cache.hit
    /\ ~ret.raised
    /\ ret.value.tev > 0

(* C19: with the store missing (no reference tables) or its reference
   tables empty, load_reference_tables does not fail and every valuator
   returns 0 for a table of numeric quantities. *)
C19_MissingOrEmptyStoreIsNotAnError ==
    /\ (Returned("load_reference_tables") /\ db \in {MissingStore, EmptyStore})
          => ~ret.raised
    /\ (/\ pc = "returned" /\ IsValuator /\ db \in {MissingStore, EmptyStore}
        /\ ~HasTextQuantity(Arg))
          => ret = Return(0)

(* C18: when several requests reach the not-yet-loaded cache concurrently,
   the store is read at most once, and once is enough for every request
   that finds the reference tables there. *)
C18_ConcurrentRequestsLoadOnce ==
    db.present => reads <= 1

(* ---- the spreadsheet upload ---- *)

FiveTiers == {"Mega", "Macro", "Mid-tier", "Micro", "Nano"}
(* the tier texts of the model that spell one of the five tiers *)
RecognizedTierTexts ==
    {"Mega", "MACRO", "macro", "Mid-tier", "Mid Tier", "MIDTIER", " micro ", "Nano"}

Uploaded == Returned("parse_creator_upload") /\ ~IsNone(Arg)
(* the sheet rows that carry a profile *)
Kept == SelectSeq(Arg.sheet, LAMBDA r : r.Profile # " ")
Grouped == ret.value.grouped

(* C21: in the spreadsheet upload every tier text that is not recognized
   becomes the tier Macro, no row is rejected because of its tier text,
   and the tier is always one of Mega, Macro, Mid-tier, Micro, Nano. *)
C21_UnrecognizedTierBecomesMacro ==
    /\ Returned("_normalize_tier") =>
          /\ ret.value \in FiveTiers
          /\ Arg \notin RecognizedTierTexts => ret.value = "Macro"
    /\ Uploaded =>
          /\ ~ret.raised
          /\ Sigma([i \in 1..Len(Grouped) |-> Grouped[i].num_posts]) = Len(Kept)
          /\ \A i \in 1..Len(Grouped) : Grouped[i].tier \in FiveTiers
          /\ \A i \in 1..Len(Kept) :
                Kept[i].CreatorTier \notin RecognizedTierTexts =>
                    \E j \in 1..Len(Grouped) : Grouped[j].tier = "Macro"

C21_Witness ==
    /\ Uploaded
    /\ Arg.sheet = <<SheetRow("alice", "Facebook", "Celebrity", "Photo")>>
    /\ Grouped = <<[platform |-> "Facebook", content_type |-> "Static Post",
                    tier |-> "Macro", num_posts |-> 1]>>

(* the text without regard to letter case, spaces and punctuation *)
RECURSIVE Fold(_)
Fold(s) ==
    IF s = "" THEN ""
    ELSE LET c == Char(s, 1)
         IN  (IF IsLower(c) \/ IsUpper(c) \/ IsDigit(c) THEN str_lower(c) ELSE "")
             \o Fold(SubSeq(s, 2, Len(s)))

PlatformVocabulary ==
    {"Facebook", "Instagram", "TikTok", "YouTube", "X (Twitter)", "Other"}

(* C22: the upload normalizer matches platform and tier text without
   regard to letter case, whitespace and punctuation: a text that differs
   from a platform or tier of the fixed vocabulary only in these is
   canonicalized to that platform or tier. *)
C22_MatchingIgnoresCaseSpaceAndPunctuation ==
    /\ Returned("_normalize_platform") =>
          \A v \in PlatformVocabulary : Fold(Arg) = Fold(v) => ret.value = v
    /\ Returned("_normalize_tier") =>
          \A v \in FiveTiers : Fold(Arg) = Fold(v) => ret.value = v

(* the content-type texts of the model that contain video, reel or story *)
VideoTexts == {"Video", "REEL", "Instagram Story", "Reels"}
Classified(text) == IF text \in VideoTexts THEN "Video Post" ELSE "Static Post"

(* the group the kept sheet row falls into has the content type t *)
GroupOf(row, t) ==
    \E j \in 1..Len(Grouped) :
        /\ Grouped[j].platform = _normalize_platform(row.Network)
        /\ Grouped[j].tier = _normalize_tier(row.CreatorTier)
        /\ Grouped[j].content_type = t

(* C23 as claimed: in the upload a row is a Video Post if its content-type
   text contains video, reel or story in any letter case and a Static Post
   otherwise, for every platform. *)
C23_ContentTypeByTextForEveryPlatform ==
    Uploaded =>
        /\ ~ret.raised
        /\ \A i \in 1..Len(Kept) :
              GroupOf(Kept[i], Classified(Kept[i].ContentType))

(* C23 amended: ... and a Static Post otherwise, except that every row of
   the platforms TikTok and YouTube is a Video Post. *)
C23_ContentTypeByTextAndPlatform ==
    /\ Returned("_normalize_content_type") => ret.value = Classified(Arg)
    /\ Uploaded =>
          /\ ~ret.raised
          /\ \A i \in 1..Len(Kept) :
                GroupOf(Kept[i],
                        IF _normalize_platform(Kept[i].Network) \in {"TikTok", "YouTube"}
                        THEN "Video Post" ELSE Classified(Kept[i].ContentType))

C23_Witness ==
    /\ Uploaded
    /\ Arg.sheet = <<SheetRow("alice", "tiktok", "Nano", "Photo")>>
    /\ Grouped = <<[platform |-> "TikTok", content_type |-> "Video Post",
                    tier |-> "Nano", num_posts |-> 1]>>

(* ---- the campaign tables ---- *)

EntryTables ==
    {"creator_echo_entries", "media_echo_entries", "community_echo_entries"}
TableOf ==
    [replace_creator_rows |-> "creator_echo_entries",
     replace_media_rows |-> "media_echo_entries",
     replace_community_rows |-> "community_echo_entries"]
ReplaceFunctions == DOMAIN TableOf

(* the entries of one campaign, and of all the others, in a table *)
EntriesOf(table, campaign_id) ==
    SelectSeq(table, LAMBDA e : e.campaign_id = campaign_id)
EntriesOfOthers(table, campaign_id) ==
    SelectSeq(table, LAMBDA e : e.campaign_id # campaign_id)

(* the entry holds the row: the row's value in every column the row has,
   zero in a quantity column and NULL in another column the row lacks *)
Holds(name, entry, row) ==
    \A col \in DOMAIN entry \ {"campaign_id"} :
        entry[col] = IF col \in DOMAIN row THEN row[col]
                     ELSE IF col \in REAL_COLUMNS[name] THEN Num(0) ELSE None

(* C27: a call of replace_creator_rows, replace_media_rows or
   replace_community_rows for a campaign id leaves the campaigns, the other
   tables and the entries of every other campaign as they were; when it
   returns, the campaign's entries are exactly the given rows, in order (none
   for an empty list); when the insert fails, the campaign's previous
   entries are still stored *)
C27_ReplaceRowsIsAtomicPerCampaign ==
    [][(pc = "idle" /\ pc' = "returned" /\ call'.fn \in ReplaceFunctions) =>
        LET name == TableOf[call'.fn]
            campaign_id == call'.args[1]
            rows == call'.args[2]
            stored == EntriesOf(tables'[name], campaign_id)
        IN  /\ tables'.campaigns = tables.campaigns
            /\ \A other \in EntryTables \ {name} : tables'[other] = tables[other]
            /\ EntriesOfOthers(tables'[name], campaign_id)
                 = EntriesOfOthers(tables[name], campaign_id)
            /\ IF ret'.raised
               THEN stored = EntriesOf(tables[name], campaign_id)
               ELSE /\ Len(stored) = Len(rows)
                    /\ \A i \in 1..Len(rows) : Holds(name, stored[i], rows[i])]_vars

(* a replace call whose insert failed, with entries of the campaign stored *)
C27_Witness ==
    /\ pc = "returned"
    /\ call.fn \in ReplaceFunctions
    /\ ret.raised
    /\ EntriesOf(tables[TableOf[call.fn]], call.args[1]) # <<>>

(* C28: fetch_campaigns(owner_id=x) returns only campaigns whose owner_id
   is x, for every owner id passed *)
C28_FetchCampaignsReturnsOnlyTheOwners ==
    Returned("fetch_campaigns") =>
        \A i \in 1..Len(ret.value) : ret.value[i].owner_id = call.args[1]

(* ---- the campaign wizard ---- *)

IsPrefix(s, t) == Len(s) <= Len(t) /\ \A i \in 1..Len(s) : s[i] = t[i]

(* the positions of the steps all of whose previous steps are completed *)
Unlocked(completed) ==
    {n \in 1..Len(WIZARD_STEPS) : \A p \in 1..(n - 1) : completed[WIZARD_STEPS[p]]}
LastUnlocked(completed) ==
    WIZARD_STEPS[CHOOSE n \in Unlocked(completed) :
                    \A m \in Unlocked(completed) : m <= n]

(* C24: the accessible steps a run of the Campaign Builder page computes
   are a non-empty prefix of (Campaign Brief, Echo Studio, Echo Impact
   Report), and a later step is among them only when all the steps before
   it are completed *)
C24_AccessibleStepsAreALinearPrefix ==
    pc = "checked" =>
        LET accessible_steps == call.accessible_steps
        IN  /\ accessible_steps # <<>>
            /\ IsPrefix(accessible_steps, WIZARD_STEPS)
            /\ \A n \in 2..Len(accessible_steps) :
                  \A p \in 1..(n - 1) :
                      session_state.wizard_completed[WIZARD_STEPS[p]]

(* a run that finds Echo Studio completed and the brief incomplete, and
   only the first step accessible *)
C24_Witness ==
    /\ pc = "checked"
    /\ ~session_state.wizard_completed["Campaign Brief"]
    /\ session_state.wizard_completed["Echo Studio"]
    /\ call.accessible_steps = <<"Campaign Brief">>

(* C25: on every run of the Campaign Builder page the active step after
   the accessibility check is a step all of whose previous steps are
   completed; an active step that is not such a step when the run starts is
   replaced by the last one that is *)
C25_ActiveStepIsAccessible ==
    [][(pc' = "checked") =>
        LET completed == session_state.wizard_completed
            requested == session_state.active_wizard_step
        IN  /\ index(WIZARD_STEPS, session_state'.active_wizard_step)
                  \in Unlocked(completed)
            /\ index(WIZARD_STEPS, requested) \notin Unlocked(completed)
               => session_state'.active_wizard_step = LastUnlocked(completed)]_vars

(* a run whose active step after the check is the report *)
C25_Witness ==
    /\ pc = "checked"
    /\ session_state.active_wizard_step = "Echo Impact Report"
    /\ ~IsNone(session_state.last_result)

(* C26: every saved campaign's media, creator, community and tev values
   are the ones calculate_campaign yields for the rows stored with it *)
C26_SavedValuesMatchSavedRows ==
    \A i \in 1..Len(tables.campaigns) :
        LET saved == tables.campaigns[i]
            out == calculate_campaign(saved.investment,
                                      fetch_media_rows(tables, saved.id),
                                      fetch_creator_rows(tables, saved.id),
                                      fetch_community_rows(tables, saved.id),
                                      cache, db)
        IN  /\ ~out.ret.raised
            /\ saved.media_echo = out.ret.value.media
            /\ saved.creator_echo = out.ret.value.creator
            /\ saved.community_echo = out.ret.value.community
            /\ saved.tev = out.ret.value.tev

(* ---- sign-in ---- *)

(* C29: verify_password returns False, and does not raise, for every
   stored string that is not a well-formed hash *)
C29_CorruptHashIsRejected ==
    (Returned("verify_password") /\ call.args[2] \in CorruptHashes)
        => ret = Return(FALSE)

(* ---- canonical labels ---- *)

(* the UI label of every canonical label of the reference tables *)
MediaUiLabel ==
    [k \in {"Major national media", "Industry-specific", "Local/niche",
            "1", "2", "3"} |->
        CASE k = "Major national media" -> "Major"
          [] k = "Industry-specific" -> "Industry"
          [] k = "Local/niche" -> "Local/Niche"
          [] k = "1" -> "Tier 1"
          [] k = "2" -> "Tier 2"
          [] k = "3" -> "Tier 3"]
CreatorUiLabel ==
    [k \in {"Static/General Post", "Video Post"} |->
        IF k = "Static/General Post" THEN "Static Post" ELSE "Video Post"]

(* the table with the UI label in place of every canonical label *)
WithUiLabels(df, column, label) ==
    DataFrame(df.columns,
              [i \in 1..Len(df.rows) |->
                  IF df.rows[i][column] \in DOMAIN label
                  THEN [df.rows[i] EXCEPT ![column] = label[@]]
                  ELSE df.rows[i]])

(* C30: the media and creator normalizations keep a tier_name or
   content_type that is already the canonical label as the join key, and a
   table with canonical labels is valued like the table with the UI labels
   in their place *)
C30_CanonicalLabelsAreFixedPoints ==
    /\ Returned("_normalize_media_inputs") =>
          \A i \in 1..Len(Rows) :
              Rows[i].tier_name \in DOMAIN MediaUiLabel
                  => ret.value.rows[i].TypeForJoin = Rows[i].tier_name
    /\ Returned("_normalize_creator_inputs") =>
          \A i \in 1..Len(Rows) :
              Rows[i].content_type \in DOMAIN CreatorUiLabel
                  => ret.value.rows[i].TypeForJoin = Rows[i].content_type
    /\ (Returned("calculate_media_echo") /\ ~IsNone(Arg)) =>
          ret = calculate_media_echo(WithUiLabels(Arg, "tier_name", MediaUiLabel),
                                     cache, db).ret
    /\ (Returned("calculate_creator_echo") /\ ~IsNone(Arg)) =>
          ret = calculate_creator_echo(
                    WithUiLabels(Arg, "content_type", CreatorUiLabel),
                    cache, db).ret

(* a social media row labelled with the canonical tier "1", valued at the
   rate of Tier 1 *)
C30_Witness ==
    /\ Returned("calculate_media_echo")
    /\ db = SeededStore
    /\ ~Absent(Arg)
    /\ Len(Rows) = 1
    /\ Rows[1] = MediaRow("Social Media", "1", Num(2))
    /\ ret = Return(14)

====
